---- MODULE Spec2Model ----
(***************************************************************************)
(* Kora rent-reclaim bot: the sponsorship tracker (classification,         *)
(* registry, persistence, advisory lock, status refresh) and the safe      *)
(* reclaimer (validation pipeline, reclaim execution).                     *)
(*                                                                         *)
(* Time is Date.now() in milliseconds, counted from a small epoch so that  *)
(* every product stays inside TLC's integers; block times are in seconds   *)
(* as on the chain.                                                        *)
(*                                                                         *)
(* Specifications over one set of variables:                               *)
(*   Spec          one tracker process, every operation one step           *)
(*   IngestSpec    ingestion runs with reclaims recorded in between        *)
(*   ClassifySpec  ingestion over every shape of transaction               *)
(*   ReclaimSpec   validateAccount and executeReclaim (both source files)  *)
(*                 over a tracked registry and a chain that moves          *)
(*   PersistSpec   two processes, saveRegistry step by step, crashes       *)
(*   LockSpec      acquireLock and releaseLock step by step, time passing  *)
(***************************************************************************)
EXTENDS Integers, Sequences, FiniteSets, TLC

\* ------------------------------------------------------------------------
\* Addresses
\* ------------------------------------------------------------------------
OP == "OP1"
U1 == "U1"
PX == "ProgX"
SYSTEM_PROGRAM == "11111111111111111111111111111111"
TOKEN_PROGRAM_ID == "TokenkegQfeZyiNwAJbNbGKPFXCWuBvf9Ss623VQ5DA"
ATA_PROGRAM == "ATokenGPvbdGVxr1b2hvZbsiqW5xWH25efTNsLJA8knL"
A1 == "A1"
A2 == "A2"
NoKeypair == "null"
Undefined == ""

DayMs == 86400000
DaySec == DayMs \div 1000
MinuteMs == 60000

\* ------------------------------------------------------------------------
\* Sponsorship classifier (sponsorshipTracker.ts)
\* ------------------------------------------------------------------------
knownPrograms ==
  { SYSTEM_PROGRAM,
    TOKEN_PROGRAM_ID,
    ATA_PROGRAM,
    "metaqbxxUerdq28cj1RbAWkYQm3ybzjb6a8bt518x1s",
    "TokenzQdBNbLqP5VEhdkAS6EPFLC1PHnBqCXEpPxuEb",
    "ComputeBudget111111111111111111111111111111" }

isProgram(address) == address \in knownPrograms

determineAccountType(owner) ==
  IF owner = Undefined THEN "system"
  ELSE IF owner = TOKEN_PROGRAM_ID THEN "token"
  ELSE IF owner = SYSTEM_PROGRAM THEN "system"
  ELSE "pda"

\* the first signer after the fee payer that is not the operator, if any
RECURSIVE firstOtherSigner(_, _, _)
firstOtherSigner(keys, i, operator) ==
  IF i > Len(keys) THEN Undefined
  ELSE IF keys[i].signer /\ keys[i].pubkey # operator THEN keys[i].pubkey
  ELSE firstOtherSigner(keys, i + 1, operator)

determineBeneficiary(accountAddress, accountOwner, operator, tx) ==
  IF isProgram(accountOwner)
  THEN LET s == firstOtherSigner(tx.accountKeys, 2, operator)
       IN  IF s # Undefined THEN s ELSE accountOwner
  ELSE accountOwner

\* calculateConfidence asking about the owning program first
calculateConfidenceByOwner(beneficiary, operator, accountOwner) ==
  IF isProgram(accountOwner) THEN "medium"
  ELSE IF beneficiary # operator /\ ~isProgram(beneficiary) THEN "high"
  ELSE "low"

calculateConfidence(beneficiary, operator, accountOwner) ==
  IF beneficiary # operator /\ ~isProgram(beneficiary) THEN "high"
  ELSE IF isProgram(accountOwner) THEN "medium"
  ELSE "low"

ATA_RENT == 2039280
ATA_SIZE == 165

\* a || b of JavaScript on strings
OrElse(a, b) == IF a = Undefined THEN b ELSE a

SponsoredAccount(address, signature, createdAt, rent, owner, type, size, operator, beneficiary, confidence) ==
  [ address |-> address,
    creationTxSignature |-> signature,
    createdAt |-> createdAt,
    rentLamports |-> rent,
    owner |-> owner,
    accountType |-> type,
    dataSize |-> size,
    sponsoredBy |-> operator,
    beneficiary |-> beneficiary,
    status |-> "active",
    lastChecked |-> -1,
    sponsorshipConfidence |-> confidence ]

\* the candidates one instruction of the loop body pushes (none or one)
\* createAccount without the test that drops the operator's own accounts
createAccountCandidateKeepingOwn(ins, tx, signature, blockTime, operatorStr) ==
  LET info == ins.info
      accountOwner == OrElse(info.owner, SYSTEM_PROGRAM)
      beneficiary == determineBeneficiary(info.newAccount, accountOwner, operatorStr, tx)
      confidence == calculateConfidence(beneficiary, operatorStr, accountOwner)
  IN  IF info.source # operatorStr THEN << >>
      ELSE << SponsoredAccount(info.newAccount, signature, blockTime, info.lamports,
                               accountOwner, determineAccountType(accountOwner),
                               info.space, operatorStr, beneficiary, confidence) >>

createAccountCandidate(ins, tx, signature, blockTime, operatorStr) ==
  LET info == ins.info
      accountOwner == OrElse(info.owner, SYSTEM_PROGRAM)
      beneficiary == determineBeneficiary(info.newAccount, accountOwner, operatorStr, tx)
      confidence == calculateConfidence(beneficiary, operatorStr, accountOwner)
  IN  IF info.source # operatorStr THEN << >>
      ELSE IF confidence = "low" /\ beneficiary = operatorStr THEN << >>
      ELSE << SponsoredAccount(info.newAccount, signature, blockTime, info.lamports,
                               accountOwner, determineAccountType(accountOwner),
                               info.space, operatorStr, beneficiary, confidence) >>

createAccountWithSeedCandidate(ins, tx, signature, blockTime, operatorStr) ==
  LET info == ins.info
      accountOwner == OrElse(info.owner, SYSTEM_PROGRAM)
      beneficiary == OrElse(info.base, accountOwner)
      confidence == calculateConfidence(beneficiary, operatorStr, accountOwner)
  IN  IF info.source # operatorStr THEN << >>
      ELSE IF confidence = "low" /\ beneficiary = operatorStr THEN << >>
      ELSE << SponsoredAccount(info.newAccount, signature, blockTime, info.lamports,
                               accountOwner, "pda", info.space, operatorStr,
                               beneficiary, confidence) >>

\* ATA creation taking the payer for the beneficiary
ataCreateCandidateForPayer(ins, tx, signature, blockTime, operatorStr) ==
  LET info == ins.info
      beneficiary == info.payer
      confidence == calculateConfidence(beneficiary, operatorStr, TOKEN_PROGRAM_ID)
  IN  IF info.payer # operatorStr THEN << >>
      ELSE IF beneficiary = operatorStr THEN << >>
      ELSE << SponsoredAccount(info.account, signature, blockTime, ATA_RENT,
                               TOKEN_PROGRAM_ID, "token", ATA_SIZE, operatorStr,
                               beneficiary, confidence) >>

ataCreateCandidate(ins, tx, signature, blockTime, operatorStr) ==
  LET info == ins.info
      beneficiary == info.wallet
      confidence == calculateConfidence(beneficiary, operatorStr, TOKEN_PROGRAM_ID)
  IN  IF info.payer # operatorStr THEN << >>
      ELSE IF beneficiary = operatorStr THEN << >>
      ELSE << SponsoredAccount(info.account, signature, blockTime, ATA_RENT,
                               TOKEN_PROGRAM_ID, "token", ATA_SIZE, operatorStr,
                               beneficiary, confidence) >>

instructionCandidates(ins, tx, signature, blockTime, operatorStr) ==
  IF ~ins.parsed THEN << >>
  ELSE IF ins.program = "system" /\ ins.type = "createAccount"
    THEN createAccountCandidate(ins, tx, signature, blockTime, operatorStr)
  ELSE IF ins.program = "system" /\ ins.type = "createAccountWithSeed"
    THEN createAccountWithSeedCandidate(ins, tx, signature, blockTime, operatorStr)
  ELSE IF ins.program = "spl-associated-token-account" /\ ins.type = "create"
    THEN ataCreateCandidate(ins, tx, signature, blockTime, operatorStr)
  ELSE << >>

RECURSIVE candidatesFrom(_, _, _, _, _, _)
candidatesFrom(instructions, i, tx, signature, blockTime, operatorStr) ==
  IF i > Len(instructions) THEN << >>
  ELSE instructionCandidates(instructions[i], tx, signature, blockTime, operatorStr)
       \o candidatesFrom(instructions, i + 1, tx, signature, blockTime, operatorStr)

\* extractSponsoredAccounts without the test of the fee payer
extractSponsoredAccountsAnyFeePayer(tx, signature, operatorStr, nowMs) ==
  LET blockTime == IF tx.blockTime # 0 THEN tx.blockTime ELSE nowMs \div 1000
  IN  candidatesFrom(tx.instructions, 1, tx, signature, blockTime, operatorStr)

\* nowMs is Date.now() at the call; a block time of 0 is a missing block time
extractSponsoredAccounts(tx, signature, operatorStr, nowMs) ==
  LET feePayer == IF Len(tx.accountKeys) = 0 THEN Undefined ELSE tx.accountKeys[1].pubkey
      blockTime == IF tx.blockTime # 0 THEN tx.blockTime ELSE nowMs \div 1000
  IN  IF feePayer = Undefined \/ feePayer # operatorStr THEN << >>
      ELSE candidatesFrom(tx.instructions, 1, tx, signature, blockTime, operatorStr)


\* ------------------------------------------------------------------------
\* The operator's transactions on the chain (what getParsedTransaction
\* returns for each signature)
\* ------------------------------------------------------------------------
Key(pubkey, signer) == [pubkey |-> pubkey, signer |-> signer]

NoInfo ==
  [ source |-> Undefined, newAccount |-> Undefined, lamports |-> 0,
    owner |-> Undefined, space |-> 0, base |-> Undefined,
    payer |-> Undefined, wallet |-> Undefined, account |-> Undefined ]

CreateAccountIx(source, newAccount, lamports, owner, space) ==
  [ parsed |-> TRUE, program |-> "system", type |-> "createAccount",
    info |-> [NoInfo EXCEPT !.source = source, !.newAccount = newAccount,
                            !.lamports = lamports, !.owner = owner,
                            !.space = space] ]

CreateWithSeedIx(source, newAccount, base, lamports, owner, space) ==
  [ parsed |-> TRUE, program |-> "system", type |-> "createAccountWithSeed",
    info |-> [NoInfo EXCEPT !.source = source, !.newAccount = newAccount,
                            !.base = base, !.lamports = lamports,
                            !.owner = owner, !.space = space] ]

AtaCreateIx(payer, account, wallet) ==
  [ parsed |-> TRUE, program |-> "spl-associated-token-account", type |-> "create",
    info |-> [NoInfo EXCEPT !.payer = payer, !.account = account,
                            !.wallet = wallet] ]

RawIx == [ parsed |-> FALSE, program |-> "memo", type |-> Undefined, info |-> NoInfo ]

Tx(keys, err, blockTime, instructions) ==
  [ accountKeys |-> keys, err |-> err, blockTime |-> blockTime,
    instructions |-> instructions ]

\* the rent-exempt minimum of an account with no data
RENT_0 == 128 * 6960

Signatures ==
  { "S01", "S02", "S03", "S04", "S05", "S06", "S07", "S08", "S09",
    "S10", "S11", "S12", "S13", "S14", "S15", "S16", "S17", "S18", "S19",
    "S20" }

TxOf(sig) ==
  CASE sig = "S01" ->  \* ATA sponsored for a user wallet
         Tx(<<Key(OP, TRUE), Key(U1, FALSE)>>, FALSE, DaySec,
            <<AtaCreateIx(OP, A1, U1)>>)
    [] sig = "S02" ->  \* ATA the operator creates for itself
         Tx(<<Key(OP, TRUE)>>, FALSE, DaySec, <<AtaCreateIx(OP, A1, OP)>>)
    [] sig = "S03" ->  \* createAccount owned by the operator itself
         Tx(<<Key(OP, TRUE), Key(A2, TRUE)>>, FALSE, DaySec,
            <<CreateAccountIx(OP, A2, RENT_0, OP, 0)>>)
    [] sig = "S04" ->  \* system account, the new account co-signs
         Tx(<<Key(OP, TRUE), Key(A2, TRUE)>>, FALSE, DaySec,
            <<CreateAccountIx(OP, A2, RENT_0, SYSTEM_PROGRAM, 0)>>)
    [] sig = "S05" ->  \* owner field missing, no other signer
         Tx(<<Key(OP, TRUE)>>, FALSE, 2 * DaySec,
            <<CreateAccountIx(OP, A2, RENT_0, Undefined, 0)>>)
    [] sig = "S06" ->  \* token account created with createAccount
         Tx(<<Key(OP, TRUE), Key(U1, TRUE)>>, FALSE, 2 * DaySec,
            <<CreateAccountIx(OP, A1, ATA_RENT, TOKEN_PROGRAM_ID, ATA_SIZE)>>)
    [] sig = "S07" ->  \* account owned by an unknown program
         Tx(<<Key(OP, TRUE), Key(U1, TRUE)>>, FALSE, DaySec,
            <<CreateAccountIx(OP, A2, RENT_0, PX, 8)>>)
    [] sig = "S08" ->  \* seeded account, base is the operator
         Tx(<<Key(OP, TRUE)>>, FALSE, DaySec,
            <<CreateWithSeedIx(OP, A2, OP, RENT_0, SYSTEM_PROGRAM, 0)>>)
    [] sig = "S09" ->  \* seeded account for a user
         Tx(<<Key(OP, TRUE), Key(U1, TRUE)>>, FALSE, DaySec,
            <<CreateWithSeedIx(OP, A2, U1, RENT_0, PX, 8)>>)
    [] sig = "S10" ->  \* seeded account, base and owner are the operator
         Tx(<<Key(OP, TRUE)>>, FALSE, DaySec,
            <<CreateWithSeedIx(OP, A2, OP, RENT_0, OP, 8)>>)
    [] sig = "S11" ->  \* rent paid by the user, fee by the operator
         Tx(<<Key(OP, TRUE), Key(U1, TRUE)>>, FALSE, DaySec,
            <<CreateAccountIx(U1, A2, RENT_0, SYSTEM_PROGRAM, 0)>>)
    [] sig = "S12" ->  \* fee payer is not the operator
         Tx(<<Key(U1, TRUE), Key(OP, TRUE)>>, FALSE, DaySec,
            <<AtaCreateIx(OP, A1, U1)>>)
    [] sig = "S13" ->  \* failed transaction
         Tx(<<Key(OP, TRUE), Key(U1, FALSE)>>, TRUE, DaySec,
            <<AtaCreateIx(OP, A1, U1)>>)
    [] sig = "S14" ->  \* same address created twice, block time missing
         Tx(<<Key(OP, TRUE), Key(U1, TRUE)>>, FALSE, 0,
            <<AtaCreateIx(OP, A1, U1),
              CreateAccountIx(OP, A1, RENT_0, TOKEN_PROGRAM_ID, 0)>>)
    [] sig = "S15" ->  \* nothing parsed
         Tx(<<Key(OP, TRUE)>>, FALSE, DaySec, <<RawIx>>)
    [] sig = "S16" ->  \* ATA paid by the user
         Tx(<<Key(OP, TRUE), Key(U1, TRUE)>>, FALSE, DaySec,
            <<AtaCreateIx(U1, A1, U1)>>)
    [] sig = "S17" ->  \* seeded account for a user, missing owner and base
         Tx(<<Key(OP, TRUE)>>, FALSE, DaySec,
            <<CreateWithSeedIx(OP, A2, Undefined, RENT_0, Undefined, 0)>>)
    [] sig = "S18" ->  \* seeded account the user pays for
         Tx(<<Key(OP, TRUE), Key(U1, TRUE)>>, FALSE, DaySec,
            <<CreateWithSeedIx(U1, A2, U1, RENT_0, PX, 8)>>)
    [] sig = "S20" ->  \* a second ATA sponsored for the user wallet
         Tx(<<Key(OP, TRUE), Key(U1, FALSE)>>, FALSE, DaySec,
            <<AtaCreateIx(OP, A2, U1)>>)
    [] sig = "S19" ->  \* the user pays for one account, the operator for the other
         Tx(<<Key(OP, TRUE), Key(U1, TRUE)>>, FALSE, DaySec,
            <<CreateAccountIx(U1, A1, ATA_RENT, TOKEN_PROGRAM_ID, ATA_SIZE),
              CreateAccountIx(OP, A2, RENT_0, PX, 8)>>)


\* ------------------------------------------------------------------------
\* Sponsorship registry (sponsorshipTracker.ts). The timestamps createdAt and
\* lastUpdated and the display counter totalTransactionsProcessed, which no
\* operation reads, are left out.
\* ------------------------------------------------------------------------
NewRegistry ==
  [ operator |-> OP,
    lastProcessedSignature |-> Undefined,
    accounts |-> << >>,
    metrics |-> [ totalAccountsSponsored |-> 0,
                  totalRentLocked |-> 0,
                  totalRentReclaimed |-> 0,
                  totalAccountsClosed |-> 0 ] ]

\* contents of a path on disk
Missing == [kind |-> "missing"]
Partial == [kind |-> "partial"]
Full(reg) == [kind |-> "full", registry |-> reg]

\* existsSync + readFileSync + JSON.parse, a new registry when that fails
loadOrCreateRegistry(content) ==
  IF content.kind = "full" THEN content.registry ELSE NewRegistry

isSignatureProcessed(reg, signature) ==
  \E i \in 1..Len(reg.accounts) : reg.accounts[i].creationTxSignature = signature

\* isAccountTracked that finds no address
isAccountTrackedNever(reg, address) == FALSE

isAccountTracked(reg, address) ==
  \E i \in 1..Len(reg.accounts) : reg.accounts[i].address = address

\* addSponsored that counts a new account without adding its rent
RECURSIVE addSponsoredWithoutRent(_, _, _)
addSponsoredWithoutRent(st, sponsored, i) ==
  IF i > Len(sponsored) THEN st
  ELSE LET account == sponsored[i]
           next == IF ~isAccountTracked(st.reg, account.address)
                   THEN [ reg |-> [st.reg EXCEPT
                            !.accounts = Append(@, account),
                            !.metrics.totalAccountsSponsored = @ + 1],
                          found |-> st.found + 1 ]
                   ELSE st
       IN  addSponsoredWithoutRent(next, sponsored, i + 1)

\* addSponsored with the counters raised outside the isAccountTracked test
RECURSIVE addSponsoredCountingAll(_, _, _)
addSponsoredCountingAll(st, sponsored, i) ==
  IF i > Len(sponsored) THEN st
  ELSE LET account == sponsored[i]
           counted == [st.reg EXCEPT
                         !.metrics.totalAccountsSponsored = @ + 1,
                         !.metrics.totalRentLocked = @ + account.rentLamports]
           next == IF ~isAccountTracked(st.reg, account.address)
                   THEN [ reg |-> [counted EXCEPT !.accounts = Append(@, account)],
                          found |-> st.found + 1 ]
                   ELSE [ reg |-> counted, found |-> st.found ]
       IN  addSponsoredCountingAll(next, sponsored, i + 1)

\* addSponsored in which a later discovery of a tracked address replaces the
\* record
RECURSIVE addSponsoredLastWins(_, _, _)
addSponsoredLastWins(st, sponsored, i) ==
  IF i > Len(sponsored) THEN st
  ELSE LET account == sponsored[i]
           next == IF ~isAccountTracked(st.reg, account.address)
                   THEN [ reg |-> [st.reg EXCEPT
                            !.accounts = Append(@, account),
                            !.metrics.totalAccountsSponsored = @ + 1,
                            !.metrics.totalRentLocked = @ + account.rentLamports],
                          found |-> st.found + 1 ]
                   ELSE [ reg |-> [st.reg EXCEPT !.accounts =
                            [k \in 1..Len(@) |->
                               IF @[k].address = account.address THEN account ELSE @[k]]],
                          found |-> st.found ]
       IN  addSponsoredLastWins(next, sponsored, i + 1)

\* the inner loop of ingestTransactionHistory over one transaction's candidates
\* st = [reg, found]
RECURSIVE addSponsored(_, _, _)
addSponsored(st, sponsored, i) ==
  IF i > Len(sponsored) THEN st
  ELSE LET account == sponsored[i]
           next == IF ~isAccountTracked(st.reg, account.address)
                   THEN [ reg |-> [st.reg EXCEPT
                            !.accounts = Append(@, account),
                            !.metrics.totalAccountsSponsored = @ + 1,
                            !.metrics.totalRentLocked = @ + account.rentLamports],
                          found |-> st.found + 1 ]
                   ELSE st
       IN  addSponsored(next, sponsored, i + 1)

\* what getParsedTransaction does for one signature
FetchOutcomes == {"ok", "null", "throw"}

\* the loop of ingestTransactionHistory over the fetched signatures
\* st = [reg, transactionsProcessed, newAccountsFound, errors]
\* the loop of ingestTransactionHistory leaving at the first failure
RECURSIVE ingestLoopStoppingAtError(_, _, _, _, _)
ingestLoopStoppingAtError(st, signatures, i, fetch, nowMs) ==
  IF i > Len(signatures) THEN st
  ELSE LET sig == signatures[i]
       IN  IF isSignatureProcessed(st.reg, sig)
           THEN ingestLoopStoppingAtError(
                  [st EXCEPT !.transactionsProcessed = @ + 1],
                  signatures, i + 1, fetch, nowMs)
           ELSE IF fetch[i] = "throw"
           THEN [st EXCEPT !.errors = @ + 1, !.fetched = Append(@, sig)]
           ELSE LET tx == TxOf(sig)
                    added ==
                      IF fetch[i] = "ok" /\ ~tx.err
                      THEN addSponsored([reg |-> st.reg, found |-> 0],
                             extractSponsoredAccounts(tx, sig, st.reg.operator, nowMs), 1)
                      ELSE [reg |-> st.reg, found |-> 0]
                IN  ingestLoopStoppingAtError(
                      [ reg |-> added.reg,
                        transactionsProcessed |-> st.transactionsProcessed + 1,
                        newAccountsFound |-> st.newAccountsFound + added.found,
                        errors |-> st.errors,
                        fetched |-> Append(st.fetched, sig) ],
                      signatures, i + 1, fetch, nowMs)

RECURSIVE ingestLoop(_, _, _, _, _)
ingestLoop(st, signatures, i, fetch, nowMs) ==
  IF i > Len(signatures) THEN st
  ELSE LET sig == signatures[i]
           next ==
             IF isSignatureProcessed(st.reg, sig)
             THEN [st EXCEPT !.transactionsProcessed = @ + 1]
             ELSE IF fetch[i] = "throw"
             THEN [st EXCEPT !.errors = @ + 1, !.fetched = Append(@, sig)]
             ELSE LET tx == TxOf(sig)
                      added ==
                        IF fetch[i] = "ok" /\ ~tx.err
                        THEN addSponsored([reg |-> st.reg, found |-> 0],
                               extractSponsoredAccounts(tx, sig, st.reg.operator, nowMs), 1)
                        ELSE [reg |-> st.reg, found |-> 0]
                  IN  [ reg |-> added.reg,
                        transactionsProcessed |-> st.transactionsProcessed + 1,
                        newAccountsFound |-> st.newAccountsFound + added.found,
                        errors |-> st.errors,
                        fetched |-> Append(st.fetched, sig) ]
       IN  ingestLoop(next, signatures, i + 1, fetch, nowMs)

\* ingestTransactionHistory up to the call of saveRegistry
ingestTransactionHistory(reg, signatures, fetch, nowMs) ==
  LET st == ingestLoop([ reg |-> reg, transactionsProcessed |-> 0,
                         newAccountsFound |-> 0, errors |-> 0,
                         fetched |-> << >> ],
                       signatures, 1, fetch, nowMs)
  IN  IF Len(signatures) > 0
      THEN [st EXCEPT !.reg.lastProcessedSignature = signatures[Len(signatures)]]
      ELSE st

\* recordReclaim up to the call of saveRegistry
\* recordReclaim that also takes the reclaimed rent off the account's record
recordReclaimClearingRent(reg, address, lamportsReclaimed) ==
  IF isAccountTracked(reg, address)
  THEN LET i == CHOOSE j \in 1..Len(reg.accounts) :
                  /\ reg.accounts[j].address = address
                  /\ \A k \in 1..(j - 1) : reg.accounts[k].address # address
       IN  [reg EXCEPT !.accounts[i].status = "closed",
                       !.accounts[i].rentLamports = 0,
                       !.metrics.totalRentReclaimed = @ + lamportsReclaimed,
                       !.metrics.totalAccountsClosed = @ + 1]
  ELSE reg

\* recordReclaim that counts a closure only when the account was not closed
recordReclaimCountingOnce(reg, address, lamportsReclaimed) ==
  IF isAccountTracked(reg, address)
  THEN LET i == CHOOSE j \in 1..Len(reg.accounts) :
                  /\ reg.accounts[j].address = address
                  /\ \A k \in 1..(j - 1) : reg.accounts[k].address # address
       IN  [reg EXCEPT !.accounts[i].status = "closed",
                       !.metrics.totalRentReclaimed = @ + lamportsReclaimed,
                       !.metrics.totalAccountsClosed =
                          IF reg.accounts[i].status = "closed" THEN @ ELSE @ + 1]
  ELSE reg

recordReclaim(reg, address, lamportsReclaimed) ==
  IF isAccountTracked(reg, address)
  THEN LET i == CHOOSE j \in 1..Len(reg.accounts) :
                  /\ reg.accounts[j].address = address
                  /\ \A k \in 1..(j - 1) : reg.accounts[k].address # address
       IN  [reg EXCEPT !.accounts[i].status = "closed",
                       !.metrics.totalRentReclaimed = @ + lamportsReclaimed,
                       !.metrics.totalAccountsClosed = @ + 1]
  ELSE reg


\* ------------------------------------------------------------------------
\* Account data on the chain
\* ------------------------------------------------------------------------
Zeros(n) == [i \in 1..n |-> 0]

\* a public key is 32 equal bytes, one code per address of the model
AddressCode(address) ==
  CASE address = OP -> 1
    [] address = U1 -> 2
    [] address = PX -> 3
    [] OTHER -> 9

CodeAddress(byte) ==
  CASE byte = 1 -> OP
    [] byte = 2 -> U1
    [] byte = 3 -> PX
    [] OTHER -> "other"

\* SPL token account layout: mint 0..31, owner 32..63, amount 64..71 (u64 LE)
TokenData(owner, amountBytes) ==
  [i \in 1..ATA_SIZE |->
     IF i <= 32 THEN 7
     ELSE IF i <= 64 THEN AddressCode(owner)
     ELSE IF i <= 72 THEN amountBytes[i - 64]
     ELSE IF i = 109 THEN 1
     ELSE 0]

AmountZero == Zeros(8)
AmountOne == <<1, 0, 0, 0, 0, 0, 0, 0>>
AmountHigh == <<0, 0, 0, 0, 0, 0, 0, 1>>

\* Buffer.readBigUInt64LE: the eight bytes from offset, least significant first
readBigUInt64LE(data, offset) == [i \in 1..8 |-> data[offset + i]]

\* n === 0n
IsZeroBig(n) == \A i \in 1..8 : n[i] = 0

\* data.every((b) => b === 0), true of an empty buffer
everyByteZero(data) == \A i \in 1..Len(data) : data[i] = 0

AccountInfo(lamports, owner, data) ==
  [lamports |-> lamports, owner |-> owner, data |-> data]

\* what getAccountInfo does: throws, resolves to null, or to the account
ReadThrow == [kind |-> "throw"]
ReadNull == [kind |-> "null"]
ReadInfo(info) == [kind |-> "info", info |-> info]

\* statusOf reading only the lowest byte of the token amount
statusOfLowByte(accountType, info) ==
  IF accountType = "token"
  THEN IF Len(info.data) >= 72
       THEN IF info.data[65] = 0 THEN "empty" ELSE "active"
       ELSE "active"
  ELSE IF Len(info.data) = 0 \/ everyByteZero(info.data) THEN "empty"
  ELSE "active"

\* the branch of refreshAccountStatuses for an account that exists
statusOf(accountType, info) ==
  IF accountType = "token"
  THEN IF Len(info.data) >= 72
       THEN IF IsZeroBig(readBigUInt64LE(info.data, 64)) THEN "empty" ELSE "active"
       ELSE "active"
  ELSE IF Len(info.data) = 0 \/ everyByteZero(info.data) THEN "empty"
  ELSE "active"

\* the loop of refreshAccountStatuses taking a failed read for an account
\* that is gone
RECURSIVE refreshLoopClosingUnread(_, _, _, _)
refreshLoopClosingUnread(st, i, reads, nowMs) ==
  IF i > Len(st.reg.accounts) THEN st
  ELSE LET account == st.reg.accounts[i]
           oldStatus == account.status
           read == reads[i]
           gone == read.kind \in {"null", "throw"}
           newStatus == IF gone THEN "closed"
                        ELSE statusOf(account.accountType, read.info)
           next ==
             [ reg |-> [st.reg EXCEPT
                 !.accounts[i].status = newStatus,
                 !.accounts[i].lastChecked = nowMs,
                 !.metrics.totalAccountsClosed =
                    IF gone /\ oldStatus # "closed" THEN @ + 1 ELSE @],
               active |-> st.active + (IF newStatus = "active" THEN 1 ELSE 0),
               empty |-> st.empty + (IF newStatus = "empty" THEN 1 ELSE 0),
               closed |-> st.closed + (IF newStatus = "closed" THEN 1 ELSE 0),
               updated |-> st.updated + (IF oldStatus # newStatus THEN 1 ELSE 0) ]
       IN  refreshLoopClosingUnread(next, i + 1, reads, nowMs)

\* the loop of refreshAccountStatuses with totalAccountsClosed following the
\* number of closed accounts down as well as up
RECURSIVE refreshLoopUncounting(_, _, _, _)
refreshLoopUncounting(st, i, reads, nowMs) ==
  IF i > Len(st.reg.accounts) THEN st
  ELSE LET account == st.reg.accounts[i]
           oldStatus == account.status
           read == reads[i]
           newStatus == IF read.kind = "null" THEN "closed"
                        ELSE statusOf(account.accountType, read.info)
           next ==
             IF read.kind = "throw" THEN st
             ELSE [ reg |-> [st.reg EXCEPT
                      !.accounts[i].status = newStatus,
                      !.accounts[i].lastChecked = nowMs,
                      !.metrics.totalAccountsClosed =
                         IF read.kind = "null" /\ oldStatus # "closed" THEN @ + 1
                         ELSE IF read.kind # "null" /\ oldStatus = "closed" THEN @ - 1
                         ELSE @],
                    active |-> st.active + (IF newStatus = "active" THEN 1 ELSE 0),
                    empty |-> st.empty + (IF newStatus = "empty" THEN 1 ELSE 0),
                    closed |-> st.closed + (IF newStatus = "closed" THEN 1 ELSE 0),
                    updated |-> st.updated + (IF oldStatus # newStatus THEN 1 ELSE 0) ]
       IN  refreshLoopUncounting(next, i + 1, reads, nowMs)

\* the loop of refreshAccountStatuses
\* st = [reg, active, empty, closed, updated]
RECURSIVE refreshLoop(_, _, _, _)
refreshLoop(st, i, reads, nowMs) ==
  IF i > Len(st.reg.accounts) THEN st
  ELSE LET account == st.reg.accounts[i]
           oldStatus == account.status
           read == reads[i]
           newStatus == IF read.kind = "null" THEN "closed"
                        ELSE statusOf(account.accountType, read.info)
           next ==
             IF read.kind = "throw" THEN st
             ELSE [ reg |-> [st.reg EXCEPT
                      !.accounts[i].status = newStatus,
                      !.accounts[i].lastChecked = nowMs,
                      !.metrics.totalAccountsClosed =
                         IF read.kind = "null" /\ oldStatus # "closed" THEN @ + 1 ELSE @],
                    active |-> st.active + (IF newStatus = "active" THEN 1 ELSE 0),
                    empty |-> st.empty + (IF newStatus = "empty" THEN 1 ELSE 0),
                    closed |-> st.closed + (IF newStatus = "closed" THEN 1 ELSE 0),
                    updated |-> st.updated + (IF oldStatus # newStatus THEN 1 ELSE 0) ]
       IN  refreshLoop(next, i + 1, reads, nowMs)

\* refreshAccountStatuses up to the call of saveRegistry
refreshAccountStatuses(reg, reads, nowMs) ==
  refreshLoop([reg |-> reg, active |-> 0, empty |-> 0, closed |-> 0, updated |-> 0],
              1, reads, nowMs)

getReclaimableAccounts(reg) ==
  SelectSeq(reg.accounts, LAMBDA a : a.status = "empty" \/ a.status = "closed")


\* ------------------------------------------------------------------------
\* Safe reclaimer: validation (safeReclaimer.ts and its second copy)
\* ------------------------------------------------------------------------
LAMPORTS_PER_SOL == 1000000000
NoList == {"<no allowList>"}

DEFAULT_SAFETY_CONFIG ==
  [ minInactiveDays |-> 7,
    recentWriteDays |-> 3,
    denyList |-> {},
    allowList |-> NoList,
    maxReclaimPerAccount |-> 1 * LAMPORTS_PER_SOL,
    maxAccountsPerRun |-> 50,
    highValueThreshold |-> LAMPORTS_PER_SOL \div 10 ]

\* what getSignaturesForAddress(pubkey, {limit: 5}) does: throws, or the
\* block times of the newest signatures (0 for a missing block time)
SigsThrow == [kind |-> "throw"]
SigsOk(blockTimes) == [kind |-> "ok", blockTimes |-> blockTimes]

\* hasRecentWrites that never looks: no account has recent writes
hasRecentWritesIgnored(sigs, cfg, nowMs) == FALSE

\* hasRecentWrites failing closed: a lookup that throws counts as activity
hasRecentWritesFailClosed(sigs, cfg, nowMs) ==
  IF sigs.kind = "throw" THEN TRUE
  ELSE \E i \in 1..Len(sigs.blockTimes) :
         /\ sigs.blockTimes[i] # 0
         /\ sigs.blockTimes[i] * 1000 > nowMs - cfg.recentWriteDays * DayMs

hasRecentWrites(sigs, cfg, nowMs) ==
  IF sigs.kind = "throw" THEN FALSE
  ELSE IF Len(sigs.blockTimes) = 0 THEN FALSE
  ELSE LET recentThreshold == nowMs - cfg.recentWriteDays * DayMs
       IN  \E i \in 1..Len(sigs.blockTimes) :
             sigs.blockTimes[i] # 0 /\ sigs.blockTimes[i] * 1000 > recentThreshold

\* getAccount of @solana/spl-token on what the chain holds: it throws when
\* the RPC fails, the account is missing, is not owned by the token program
\* or is shorter than a token account; else it unpacks owner and amount
getAccount(read, rpcOk) ==
  IF ~rpcOk \/ read.kind # "info" THEN [kind |-> "throw"]
  ELSE IF read.info.owner # TOKEN_PROGRAM_ID THEN [kind |-> "throw"]
  ELSE IF Len(read.info.data) < ATA_SIZE THEN [kind |-> "throw"]
  ELSE [ kind |-> "ok",
         owner |-> CodeAddress(read.info.data[33]),
         amount |-> readBigUInt64LE(read.info.data, 64) ]

NoChecks ==
  [ inDenyList |-> FALSE,
    hasRecentWrites |-> FALSE,
    meetsInactivityThreshold |-> FALSE,
    isEmptyOrZeroBalance |-> FALSE,
    ownershipVerified |-> FALSE,
    belowMaxReclaim |-> FALSE ]

ValidationResult(account, canReclaim, reason, riskLevel, checks) ==
  [ kind |-> "result",
    address |-> account.address,
    canReclaim |-> canReclaim,
    reason |-> reason,
    riskLevel |-> riskLevel,
    checks |-> checks ]

\* getAccountInfo threw: validateAccount rejects with that error
ValidationThrows == [kind |-> "throw", canReclaim |-> FALSE]

Accepted(account, cfg, info, checks) ==
  ValidationResult(account, TRUE, "Safe to reclaim",
    IF info.lamports > cfg.highValueThreshold THEN "medium" ELSE "safe", checks)

\* the pda branch answering that the account may be reclaimed
acceptPda(account, checks) ==
  ValidationResult(account, TRUE, "Safe to reclaim", "safe", checks)

\* the pda branch of CHECK 7 of src/core/safeReclaimer.ts
rejectPda(account, checks) ==
  ValidationResult(account, FALSE,
    "PDA accounts require manual review - skipping", "high", checks)

\* CHECK 7 of src/core/safeReclaimer.ts
kindChecksCore(account, cfg, keypair, info, tok, checks) ==
  IF account.accountType = "token"
  THEN IF tok.kind = "throw"
       THEN Accepted(account, cfg, info, [checks EXCEPT !.isEmptyOrZeroBalance = TRUE])
       ELSE LET c == [checks EXCEPT
                        !.isEmptyOrZeroBalance = IsZeroBig(tok.amount),
                        !.ownershipVerified =
                           IF keypair # NoKeypair THEN tok.owner = keypair ELSE @]
            IN  IF ~c.isEmptyOrZeroBalance
                THEN ValidationResult(account, FALSE,
                       "Token account has tokens - DO NOT TOUCH", "blocked", c)
                ELSE IF ~c.ownershipVerified
                THEN ValidationResult(account, FALSE,
                       "Cannot close: not the token account owner", "medium", c)
                ELSE Accepted(account, cfg, info, c)
  ELSE IF account.accountType = "pda"
  THEN rejectPda(account, checks)
  ELSE LET c == [checks EXCEPT !.isEmptyOrZeroBalance =
                   Len(info.data) = 0 \/ everyByteZero(info.data)]
       IN  IF ~c.isEmptyOrZeroBalance
           THEN ValidationResult(account, FALSE,
                  "System account has data - not empty", "medium", c)
           ELSE Accepted(account, cfg, info, c)

\* CHECK 7 of the second copy of safeReclaimer.ts
kindChecksPart007(account, cfg, keypair, info, tok, checks) ==
  IF account.accountType = "token"
  THEN IF tok.kind = "throw"
       THEN ValidationResult(account, FALSE,
              "Cannot read token account state", "medium", checks)
       ELSE LET c == [checks EXCEPT
                        !.isEmptyOrZeroBalance = IsZeroBig(tok.amount),
                        !.ownershipVerified =
                           IF keypair # NoKeypair THEN tok.owner = keypair ELSE FALSE]
            IN  IF ~c.isEmptyOrZeroBalance
                THEN ValidationResult(account, FALSE,
                       "Token account has tokens - DO NOT TOUCH", "blocked", c)
                ELSE IF ~c.ownershipVerified
                THEN ValidationResult(account, FALSE,
                       "Cannot close: you sponsored this account but USER owns it (this is normal for Kora)",
                       "blocked", c)
                ELSE Accepted(account, cfg, info, c)
  ELSE IF account.accountType = "pda"
  THEN ValidationResult(account, FALSE,
         "PDA accounts require program authority - cannot auto-close", "blocked", checks)
  ELSE LET c1 == [checks EXCEPT !.ownershipVerified =
                    IF keypair # NoKeypair THEN info.owner = keypair ELSE FALSE]
           c2 == [c1 EXCEPT !.isEmptyOrZeroBalance =
                    Len(info.data) = 0 \/ everyByteZero(info.data)]
       IN  IF ~c1.ownershipVerified
           THEN ValidationResult(account, FALSE,
                  "Cannot close: account is owned by another, not your keypair",
                  "blocked", c1)
           ELSE IF ~c2.isEmptyOrZeroBalance
           THEN ValidationResult(account, FALSE,
                  "System account has data - not empty", "medium", c2)
           ELSE Accepted(account, cfg, info, c2)

\* the chain reads validateAccount awaited before it returned r, in order
Performed(r, reads) ==
  IF r.kind = "throw"
  THEN [kind |-> "throw", canReclaim |-> FALSE, reads |-> reads]
  ELSE [ kind |-> r.kind, address |-> r.address, canReclaim |-> r.canReclaim,
         reason |-> r.reason, riskLevel |-> r.riskLevel, checks |-> r.checks,
         reads |-> reads ]

\* the reads of CHECK 4 to CHECK 6, and of CHECK 7 for the account type
GeneralReads == <<"getSignaturesForAddress", "getAccountInfo">>
KindReads(account) ==
  IF account.accountType = "token" THEN GeneralReads \o <<"getAccount">>
  ELSE GeneralReads

\* validateAccount with CHECK 4 moved in front of CHECK 3: the signature
\* lookup is made for an account that is too young
validateAccountLookupFirst(which, account, cfg, keypair, nowMs, sigs, read, tokOk) ==
  LET minAge == cfg.minInactiveDays * DayMs
      c4 == [NoChecks EXCEPT !.hasRecentWrites = hasRecentWrites(sigs, cfg, nowMs)]
      c3 == [c4 EXCEPT !.meetsInactivityThreshold =
                nowMs - account.createdAt * 1000 >= minAge]
  IN  IF account.address \in cfg.denyList
      THEN Performed(
             ValidationResult(account, FALSE, "Account is in deny list - BLOCKED",
               "blocked", [NoChecks EXCEPT !.inDenyList = TRUE]), << >>)
      ELSE IF cfg.allowList # NoList /\ account.address \notin cfg.allowList
      THEN Performed(
             ValidationResult(account, FALSE, "Account is not in allow list",
               "blocked", NoChecks), << >>)
      ELSE IF c4.hasRecentWrites
      THEN Performed(
             ValidationResult(account, FALSE, "Account has recent activity", "high", c4),
             <<"getSignaturesForAddress">>)
      ELSE IF ~c3.meetsInactivityThreshold
      THEN Performed(
             ValidationResult(account, FALSE, "Account is too young", "medium", c3),
             <<"getSignaturesForAddress">>)
      ELSE IF read.kind = "throw" THEN Performed(ValidationThrows, GeneralReads)
      ELSE IF read.kind = "null"
      THEN Performed(
             ValidationResult(account, FALSE, "Account already closed", "safe", c3),
             GeneralReads)
      ELSE IF read.info.lamports > cfg.maxReclaimPerAccount
      THEN Performed(
             ValidationResult(account, FALSE, "Account value exceeds max", "high", c3),
             GeneralReads)
      ELSE IF which = "core"
      THEN Performed(
             kindChecksCore(account, cfg, keypair, read.info, getAccount(read, tokOk),
                            [c3 EXCEPT !.belowMaxReclaim = TRUE]),
             KindReads(account))
      ELSE Performed(
             kindChecksPart007(account, cfg, keypair, read.info, getAccount(read, tokOk),
                               [c3 EXCEPT !.belowMaxReclaim = TRUE]),
             KindReads(account))

\* validateAccount: checks 1 to 6 are the same text in both files;
\* which = "core" or "part007" picks CHECK 7.
\* sigs, read, tokOk: what the three chain reads do during the call
validateAccount(which, account, cfg, keypair, nowMs, sigs, read, tokOk) ==
  LET accountAge == nowMs - account.createdAt * 1000
      minAge == cfg.minInactiveDays * DayMs
      c3 == [NoChecks EXCEPT !.meetsInactivityThreshold = accountAge >= minAge]
      c4 == [c3 EXCEPT !.hasRecentWrites = hasRecentWrites(sigs, cfg, nowMs)]
  IN  IF account.address \in cfg.denyList
      THEN Performed(
             ValidationResult(account, FALSE, "Account is in deny list - BLOCKED",
               "blocked", [NoChecks EXCEPT !.inDenyList = TRUE]), << >>)
      ELSE IF cfg.allowList # NoList /\ account.address \notin cfg.allowList
      THEN Performed(
             ValidationResult(account, FALSE, "Account is not in allow list",
               "blocked", NoChecks), << >>)
      ELSE IF ~c3.meetsInactivityThreshold
      THEN Performed(
             ValidationResult(account, FALSE, "Account is too young", "medium", c3),
             << >>)
      ELSE IF c4.hasRecentWrites
      THEN Performed(
             ValidationResult(account, FALSE, "Account has recent activity", "high", c4),
             <<"getSignaturesForAddress">>)
      ELSE IF read.kind = "throw" THEN Performed(ValidationThrows, GeneralReads)
      ELSE IF read.kind = "null"
      THEN Performed(
             ValidationResult(account, FALSE, "Account already closed", "safe", c4),
             GeneralReads)
      ELSE LET info == read.info
               c6 == [c4 EXCEPT !.belowMaxReclaim =
                        info.lamports <= cfg.maxReclaimPerAccount]
           IN  IF ~c6.belowMaxReclaim
               THEN Performed(
                      ValidationResult(account, FALSE, "Account value exceeds max",
                        "high", c6), GeneralReads)
               ELSE IF which = "core"
               THEN Performed(
                      kindChecksCore(account, cfg, keypair, info,
                                     getAccount(read, tokOk), c6),
                      KindReads(account))
               ELSE Performed(
                      kindChecksPart007(account, cfg, keypair, info,
                                        getAccount(read, tokOk), c6),
                      KindReads(account))

\* ------------------------------------------------------------------------
\* Safe reclaimer: executeReclaim
\* ------------------------------------------------------------------------
\* what the chain does with the one-instruction transaction that only the
\* keypair signs: closeAccount lands when the keypair is the token account's
\* owner and it holds no tokens; SystemProgram.transfer needs the signature of
\* the account it debits
txLands(account, keypair, read) ==
  IF account.accountType = "token"
  THEN LET tok == getAccount(read, TRUE)
       IN  tok.kind = "ok" /\ tok.owner = keypair /\ IsZeroBig(tok.amount)
  ELSE /\ account.address = keypair
       /\ read.kind = "info"
       /\ read.info.owner = SYSTEM_PROGRAM

NewReport(accounts, dryRun) ==
  [ kind |-> "report",
    operator |-> IF Len(accounts) > 0 THEN accounts[1].sponsoredBy ELSE "unknown",
    dryRun |-> dryRun,
    accountsAnalyzed |-> Len(accounts),
    accountsValidated |-> 0,
    accountsReclaimed |-> 0,
    accountsFailed |-> 0,
    totalLamportsReclaimed |-> 0,
    transactions |-> << >>,
    errors |-> << >>,
    saved |-> FALSE ]

ReclaimTransaction(address, lamportsBefore, lamportsAfter, txSignature, treasuryBalanceBefore, treasuryBalanceAfter, verified) ==
  [ address |-> address,
    lamportsBefore |-> lamportsBefore,
    lamportsAfter |-> lamportsAfter,
    lamportsReclaimed |-> lamportsBefore - lamportsAfter,
    txSignature |-> txSignature,
    treasuryBalanceBefore |-> treasuryBalanceBefore,
    treasuryBalanceAfter |-> treasuryBalanceAfter,
    verified |-> verified ]

\* st = [chain, treasury, reg, report, visited, dispatched, notified, written,
\* thrown]:
\* the chain, the tracker's registry and the report as the loop goes, the
\* accounts the loop body was entered for, the transactions handed to
\* sendAndConfirmTransaction, the accounts handed to onReclaim, the
\* registries the callback saved, and whether an exception left the loop
\* the callback bot.ts passes: tracker.recordReclaim(address, rentLamports)
onReclaim(st, account) ==
  LET reg == recordReclaim(st.reg, account.address, account.rentLamports)
  IN  [st EXCEPT !.notified = Append(@, account.address),
                 !.reg = reg,
                 !.written = Append(@, reg)]

\* an account recorded as failed and handed to the callback all the same
failedNotifying(st, account, error) ==
  onReclaim(
    [st EXCEPT !.report.errors = Append(@, [address |-> account.address, error |-> error]),
               !.report.accountsFailed = @ + 1],
    account)

\* errors.push({address, error}) and accountsFailed++
failed(st, account, error) ==
  [st EXCEPT !.report.errors = Append(@, [address |-> account.address, error |-> error]),
             !.report.accountsFailed = @ + 1]

\* the callback when the saveRegistry of its recordReclaim throws: the
\* registry is changed in memory, nothing is written, and the exception
\* lands in the catch of the loop body, which the callback is called inside
onReclaimThrowing(st, account) ==
  failed([st EXCEPT !.notified = Append(@, account.address),
                    !.reg = recordReclaim(@, account.address, account.rentLamports)],
         account, "save failed")

\* the callback as the try block calls it; notifyOk: its save succeeds
notify(st, account, notifyOk) ==
  IF notifyOk THEN onReclaim(st, account) ELSE onReclaimThrowing(st, account)

\* the dry-run branch with the callback of the live branch called as well
dryRunNotifying(st, account, lamportsBefore, treasuryBalanceBefore) ==
  onReclaim(
    [st EXCEPT
       !.report.accountsReclaimed = @ + 1,
       !.report.totalLamportsReclaimed = @ + lamportsBefore,
       !.report.transactions = Append(@,
          ReclaimTransaction(account.address, lamportsBefore, 0, "DRY_RUN",
                             treasuryBalanceBefore,
                             treasuryBalanceBefore + lamportsBefore, TRUE))],
    account)

\* the dry-run branch that lists the transaction without adding its lamports
\* to the total
dryRunBranchUncounted(st, account, lamportsBefore, treasuryBalanceBefore) ==
  [st EXCEPT
     !.report.accountsReclaimed = @ + 1,
     !.report.transactions = Append(@,
        ReclaimTransaction(account.address, lamportsBefore, 0, "DRY_RUN",
                           treasuryBalanceBefore,
                           treasuryBalanceBefore + lamportsBefore, TRUE))]

\* the dry-run branch of the loop body
dryRunBranch(st, account, lamportsBefore, treasuryBalanceBefore) ==
  [st EXCEPT
     !.report.accountsReclaimed = @ + 1,
     !.report.totalLamportsReclaimed = @ + lamportsBefore,
     !.report.transactions = Append(@,
        ReclaimTransaction(account.address, lamportsBefore, 0, "DRY_RUN",
                           treasuryBalanceBefore,
                           treasuryBalanceBefore + lamportsBefore, TRUE))]

\* the live branch without its catch: a send that fails leaves the loop
sendAndVerifyUncaught(st, account, keypair, lamportsBefore, treasuryBalanceBefore, in) ==
  LET address == account.address
      lands == in.txOk /\ txLands(account, keypair, st.chain[address])
      sent == [st EXCEPT !.dispatched = Append(@,
                 [address |-> address, accountType |-> account.accountType,
                  landed |-> lands, treasuryBefore |-> st.treasury])]
      spent == IF st.treasury >= in.spent THEN in.spent ELSE 0
      after == [sent EXCEPT !.chain[address] = ReadNull,
                            !.treasury = @ + lamportsBefore - spent]
  IN  IF ~lands THEN [sent EXCEPT !.thrown = TRUE]
      ELSE IF ~in.afterOk THEN failed(after, account, "read failed")
      ELSE notify(
             [after EXCEPT
                !.report.accountsReclaimed = @ + 1,
                !.report.totalLamportsReclaimed = @ + lamportsBefore,
                !.report.transactions = Append(@,
                   ReclaimTransaction(address, lamportsBefore, 0, "sig",
                                      treasuryBalanceBefore, after.treasury,
                                      after.treasury > treasuryBalanceBefore))],
             account, in.notifyOk)

\* the try block of the live branch: send, verify, record, notify
\* in = what the RPC does during this iteration; in.spent = the lamports
\* that other transactions take out of the treasury while this one is in
\* flight
sendAndVerify(st, account, keypair, lamportsBefore, treasuryBalanceBefore, in) ==
  LET address == account.address
      lands == in.txOk /\ txLands(account, keypair, st.chain[address])
      sent == [st EXCEPT !.dispatched = Append(@,
                 [address |-> address, accountType |-> account.accountType,
                  landed |-> lands, treasuryBefore |-> st.treasury])]
      spent == IF st.treasury >= in.spent THEN in.spent ELSE 0
      after == [sent EXCEPT !.chain[address] = ReadNull,
                            !.treasury = @ + lamportsBefore - spent]
      infoAfter == after.chain[address]
      lamportsAfter == IF infoAfter.kind = "info" THEN infoAfter.info.lamports ELSE 0
      treasuryBalanceAfter == after.treasury
      verified == treasuryBalanceAfter > treasuryBalanceBefore
  IN  IF ~lands THEN failed(sent, account, "send failed")
      ELSE IF ~in.afterOk THEN failed(after, account, "read failed")
      ELSE notify(
             [after EXCEPT
                !.report.accountsReclaimed = @ + 1,
                !.report.totalLamportsReclaimed = @ + (lamportsBefore - lamportsAfter),
                !.report.transactions = Append(@,
                   ReclaimTransaction(address, lamportsBefore, lamportsAfter, "sig",
                                      treasuryBalanceBefore, treasuryBalanceAfter,
                                      verified))],
             account, in.notifyOk)

\* one iteration of the loop of executeReclaim
reclaimOne(st, which, account, cfg, keypair, dryRun, in, nowMs, treasuryBalanceBefore) ==
  LET onChain == st.chain[account.address]
      v == validateAccount(which, account, cfg, keypair, nowMs, in.sigs,
                           IF in.readOk THEN onChain ELSE ReadThrow, in.tokOk)
      entered == [st EXCEPT !.visited = Append(@, account.address)]
      validated == [entered EXCEPT !.report.accountsValidated = @ + 1]
  IN  IF v.kind = "throw" THEN [entered EXCEPT !.thrown = TRUE]
      ELSE IF ~v.canReclaim THEN entered
      ELSE IF ~in.read2Ok THEN [validated EXCEPT !.thrown = TRUE]
      ELSE IF onChain.kind # "info" THEN validated
      ELSE IF dryRun
      THEN dryRunBranch(validated, account, onChain.info.lamports, treasuryBalanceBefore)
      ELSE IF keypair = NoKeypair THEN failed(validated, account, "No keypair")
      ELSE IF /\ which = "part007"
              /\ account.accountType # "token"
              /\ onChain.info.owner = SYSTEM_PROGRAM
      THEN failed(validated, account,
             "Cannot drain: account owned by System Program, not your keypair")
      ELSE sendAndVerify(validated, account, keypair, onChain.info.lamports,
                         treasuryBalanceBefore, in)

\* slice that takes the whole array whatever the indexes
sliceWhole(seq, begin, end) == seq

\* Array.prototype.slice(begin, end): a negative index counts from the end
slice(seq, begin, end) ==
  LET len == Len(seq)
      Clamp(k) == IF k < 0 THEN (IF len + k < 0 THEN 0 ELSE len + k)
                  ELSE IF k > len THEN len ELSE k
  IN  SubSeq(seq, Clamp(begin) + 1, Clamp(end))

RECURSIVE reclaimLoop(_, _, _, _, _, _, _, _, _, _)
reclaimLoop(st, i, toProcess, which, cfg, keypair, dryRun, ins, nowMs, treasuryBalanceBefore) ==
  IF i > Len(toProcess) \/ st.thrown THEN st
  ELSE reclaimLoop(
         reclaimOne(st, which, toProcess[i], cfg, keypair, dryRun, ins[i], nowMs,
                    treasuryBalanceBefore),
         i + 1, toProcess, which, cfg, keypair, dryRun, ins, nowMs,
         treasuryBalanceBefore)

\* executeReclaim(accounts, dryRun, onReclaim) of the reclaimer built with
\* cfg and keypair, on a chain and a tracker in the state start;
\* balanceOk: the first getBalance answers
executeReclaim(which, accounts, dryRun, cfg, keypair, ins, balanceOk, nowMs, start) ==
  LET toProcess == slice(accounts, 0, cfg.maxAccountsPerRun)
      st == [ chain |-> start.chain, treasury |-> start.treasury, reg |-> start.reg,
              report |-> NewReport(accounts, dryRun), visited |-> << >>,
              dispatched |-> << >>, notified |-> << >>, written |-> << >>,
              thrown |-> FALSE ]
      end == reclaimLoop(st, 1, toProcess, which, cfg, keypair, dryRun, ins, nowMs,
                         start.treasury)
  IN  IF ~balanceOk THEN [st EXCEPT !.thrown = TRUE]
      ELSE IF end.thrown THEN end
      ELSE [end EXCEPT !.report.saved = TRUE]

\* ------------------------------------------------------------------------
\* Bounds
\* ------------------------------------------------------------------------
MaxHistory == 2
MaxClosed == 2
MaxMinutes == 6

\* ------------------------------------------------------------------------
\* State
\* ------------------------------------------------------------------------
VARIABLES
  now,         \* Date.now()
  pool,        \* the signatures the operator may still put on the chain
  history,     \* the operator's signatures on the chain, newest first
  pc,          \* per process: where it is in its tracker operation
  op,          \* per process: the operation whose saveRegistry is running
  registry,    \* per process: this.registry
  file,        \* contents of registryPath
  tmpFile,     \* contents of registryPath + ".tmp"
  target,      \* per process: the path its open write descriptor now names
  result,      \* what the last tracker operation was and returned
  impl,        \* which source file of SafeRentReclaimer is deployed
  chain,       \* address -> account on the chain (ReadNull when absent)
  treasury,    \* lamports of the treasury account
  validation,  \* the last ValidationResult with the inputs that produced it
  call,        \* the arguments of the last executeReclaim call
  report,      \* the last ReclaimReport
  visited,     \* the accounts its loop body was entered for, in order
  dispatched,  \* the transactions the last executeReclaim handed to the chain
  notified,    \* the addresses the last executeReclaim handed to onReclaim
  lockFile,    \* contents of registryPath + ".lock"
  lockpc,      \* per process: where it is in acquireLock / releaseLock
  lockHeld     \* per process: acquireLock returned true (and when), not yet released

trackerVars == <<pool, history, pc, op, registry, file, tmpFile, target, result>>
reclaimVars ==
  <<impl, chain, treasury, validation, call, report, visited, dispatched, notified>>
lockVars == <<lockFile, lockpc, lockHeld>>
vars == <<now, trackerVars, reclaimVars, lockVars>>

Procs == {"P1", "P2"}
StartNow == 10 * DayMs

NoResult == [op |-> "none", proc |-> "none"]
NoValidation == [kind |-> "none"]
NoReport == [kind |-> "none"]
NoCall == [kind |-> "none"]

TrackerIdle ==
  /\ history = << >>
  /\ pc = [p \in Procs |-> "off"]
  /\ op = [p \in Procs |-> "none"]
  /\ registry = [p \in Procs |-> NewRegistry]
  /\ file = Missing
  /\ tmpFile = Missing
  /\ target = [p \in Procs |-> "none"]
  /\ result = NoResult

ReclaimIdle ==
  /\ impl = "core"
  /\ chain = [a \in {A1, A2} |-> ReadNull]
  /\ treasury = 0
  /\ validation = NoValidation
  /\ call = NoCall
  /\ report = NoReport
  /\ visited = << >>
  /\ dispatched = << >>
  /\ notified = << >>

NotHeld == [held |-> FALSE, since |-> 0]

LockIdle ==
  /\ lockFile = Missing
  /\ lockpc = [p \in Procs |-> "idle"]
  /\ lockHeld = [p \in Procs |-> NotHeld]

\* ------------------------------------------------------------------------
\* Environment
\* ------------------------------------------------------------------------
\* the operator signs one more transaction
NewTransaction(sig) ==
  /\ sig \in pool
  /\ Len(history) < MaxHistory
  /\ \A i \in 1..Len(history) : history[i] # sig
  /\ history' = <<sig>> \o history
  /\ UNCHANGED <<now, pool, pc, op, registry, file, tmpFile, target, result,
                 reclaimVars, lockVars>>

\* ------------------------------------------------------------------------
\* Tracker operations in memory, up to their call of saveRegistry
\* ------------------------------------------------------------------------
\* every signature's transaction was fetched
AllFetched(fetch) == \A i \in 1..Len(fetch) : fetch[i] = "ok"

\* the last operation was p's ingestion of these signatures, all fetched
SameRunBefore(p, signatures) ==
  /\ result.op = "ingest"
  /\ result.proc = p
  /\ result.complete
  /\ result.signatures = signatures

FirstN(seq, n) == SubSeq(seq, 1, IF n < Len(seq) THEN n ELSE Len(seq))

\* ingestTransactionHistory(limit) with getSignaturesForAddress answering
IngestEffect(p, limit, fetch) ==
  LET signatures == FirstN(history, limit)
      st == ingestTransactionHistory(registry[p], signatures, fetch, now)
  IN  /\ registry' = [registry EXCEPT ![p] = st.reg]
      /\ result' = [ op |-> "ingest", proc |-> p,
                     signatures |-> signatures,
                     complete |-> AllFetched(fetch),
                     repeat |-> AllFetched(fetch) /\ SameRunBefore(p, signatures),
                     newAccountsFound |-> st.newAccountsFound,
                     fetched |-> st.fetched ]

\* ingestTransactionHistory with getSignaturesForAddress throwing: the outer
\* catch logs it and the zero counts are returned
IngestNoHistory(p) ==
  /\ pc[p] = "ready"
  /\ result' = [ op |-> "ingest", proc |-> p, signatures |-> << >>,
                 complete |-> FALSE, repeat |-> FALSE, newAccountsFound |-> 0,
                 fetched |-> << >> ]
  /\ UNCHANGED <<now, pool, history, pc, op, registry, file, tmpFile, target,
                 reclaimVars, lockVars>>

RefreshEffect(p, reads) ==
  LET st == refreshAccountStatuses(registry[p], reads, now)
  IN  /\ st.reg.metrics.totalAccountsClosed <= MaxClosed
      /\ registry' = [registry EXCEPT ![p] = st.reg]
      /\ result' = [ op |-> "refresh", proc |-> p,
                     active |-> st.active, empty |-> st.empty,
                     closed |-> st.closed, updated |-> st.updated,
                     readFailed |-> { i \in DOMAIN reads : reads[i].kind = "throw" } ]

RecordReclaimEffect(p, address, lamportsReclaimed) ==
  LET reg == recordReclaim(registry[p], address, lamportsReclaimed)
  IN  /\ reg.metrics.totalAccountsClosed <= MaxClosed
      /\ registry' = [registry EXCEPT ![p] = reg]
      /\ result' = [ op |-> "recordReclaim", proc |-> p,
                     address |-> address,
                     lamportsReclaimed |-> lamportsReclaimed,
                     tracked |-> isAccountTracked(registry[p], address) ]

\* ------------------------------------------------------------------------
\* Tracker process, each operation as one step (saveRegistry included)
\* ------------------------------------------------------------------------
\* new KoraSponsorshipTracker(...)
Start(p) ==
  /\ pc[p] = "off"
  /\ pc' = [pc EXCEPT ![p] = "ready"]
  /\ registry' = [registry EXCEPT ![p] = loadOrCreateRegistry(file)]
  /\ UNCHANGED <<now, pool, history, op, file, tmpFile, target, result,
                 reclaimVars, lockVars>>

\* saveRegistry with nothing else running: temp file written, then renamed
Saved(p) ==
  /\ file' = Full(registry'[p])
  /\ UNCHANGED <<tmpFile, target, pc, op>>

Ingest(p, limit, fetch) ==
  /\ pc[p] = "ready"
  /\ IngestEffect(p, limit, fetch)
  /\ Saved(p)
  /\ UNCHANGED <<now, pool, history, reclaimVars, lockVars>>

Refresh(p, reads) ==
  /\ pc[p] = "ready"
  /\ RefreshEffect(p, reads)
  /\ Saved(p)
  /\ UNCHANGED <<now, pool, history, reclaimVars, lockVars>>

RecordReclaim(p, address, lamportsReclaimed) ==
  /\ pc[p] = "ready"
  /\ RecordReclaimEffect(p, address, lamportsReclaimed)
  /\ IF isAccountTracked(registry[p], address)
     THEN Saved(p)
     ELSE UNCHANGED <<file, tmpFile, target, pc, op>>
  /\ UNCHANGED <<now, pool, history, reclaimVars, lockVars>>

\* ------------------------------------------------------------------------
\* Inputs
\* ------------------------------------------------------------------------
RefreshData ==
  { << >>, TokenData(U1, AmountZero), TokenData(U1, AmountOne) }

RefreshReads ==
  {ReadThrow, ReadNull} \cup
  { ReadInfo(AccountInfo(RENT_0, SYSTEM_PROGRAM, d)) : d \in RefreshData }

ReclaimAmounts == {RENT_0, ATA_RENT}

\* ------------------------------------------------------------------------
\* The tracker of one process: its whole life on one registry
\* ------------------------------------------------------------------------
LifecycleSignatures == {"S01", "S04", "S06", "S13"}

Init ==
  /\ now = StartNow
  /\ pool = LifecycleSignatures
  /\ TrackerIdle
  /\ ReclaimIdle
  /\ LockIdle

TrackerStep(p) ==
  \/ Start(p)
  \/ IngestNoHistory(p)
  \/ \E limit \in 1..MaxHistory :
       \E fetch \in [1..Len(FirstN(history, limit)) -> FetchOutcomes] :
         Ingest(p, limit, fetch)
  \/ \E reads \in [1..Len(registry[p].accounts) -> RefreshReads] : Refresh(p, reads)
  \/ \E address \in {A1, A2}, lamports \in ReclaimAmounts :
       RecordReclaim(p, address, lamports)

Next ==
  \/ \E sig \in Signatures : NewTransaction(sig)
  \/ TrackerStep("P1")

Spec == Init /\ [][Next]_vars


\* ------------------------------------------------------------------------
\* Ingestion runs with reclaims recorded in between
\* ------------------------------------------------------------------------
IngestNext ==
  \/ \E sig \in Signatures : NewTransaction(sig)
  \/ Start("P1")
  \/ IngestNoHistory("P1")
  \/ \E limit \in 1..MaxHistory :
       \E fetch \in [1..Len(FirstN(history, limit)) -> FetchOutcomes] :
         Ingest("P1", limit, fetch)
  \/ \E address \in {A1, A2}, lamports \in ReclaimAmounts :
       RecordReclaim("P1", address, lamports)

\* three creations of one address, two of them in one transaction, and a
\* transaction that sponsors nobody
IngestSignatures == {"S01", "S03", "S06", "S14"}

IngestInit ==
  /\ now = StartNow
  /\ pool = IngestSignatures
  /\ TrackerIdle
  /\ ReclaimIdle
  /\ LockIdle

IngestSpec == IngestInit /\ [][IngestNext]_vars

\* ------------------------------------------------------------------------
\* The tracker's three mutating operations with a disk that can refuse the
\* write: writeFileSync or renameSync of saveRegistry throws
\* ------------------------------------------------------------------------
\* saveRegistry throws: registryPath keeps its contents; the temp file is
\* untouched, cut short, or complete and not renamed. The process is
\* followed up to this failure and no further.
SaveThrows(p) ==
  /\ file' = file
  /\ tmpFile' \in {tmpFile, Partial, Full(registry'[p])}
  /\ pc' = [pc EXCEPT ![p] = "stopped"]
  /\ UNCHANGED <<target, op>>

\* ingestTransactionHistory: saveRegistry is called inside the outer try, the
\* catch logs the error and the counts are returned
IngestSaveThrows(p, limit, fetch) ==
  /\ pc[p] = "ready"
  /\ LET signatures == FirstN(history, limit)
         st == ingestTransactionHistory(registry[p], signatures, fetch, now)
     IN  /\ registry' = [registry EXCEPT ![p] = st.reg]
         /\ result' = [ op |-> "ingest", proc |-> p, signatures |-> signatures,
                        complete |-> FALSE, repeat |-> FALSE,
                        newAccountsFound |-> st.newAccountsFound,
                        fetched |-> st.fetched,
                        saveThrew |-> TRUE, threw |-> FALSE ]
  /\ SaveThrows(p)
  /\ UNCHANGED <<now, pool, history, reclaimVars, lockVars>>

\* refreshAccountStatuses: saveRegistry is called after the loop, outside
\* any try
RefreshSaveThrows(p, reads) ==
  /\ pc[p] = "ready"
  /\ LET st == refreshAccountStatuses(registry[p], reads, now)
     IN  /\ st.reg.metrics.totalAccountsClosed <= MaxClosed
         /\ registry' = [registry EXCEPT ![p] = st.reg]
         /\ result' = [ op |-> "refresh", proc |-> p,
                        saveThrew |-> TRUE, threw |-> TRUE ]
  /\ SaveThrows(p)
  /\ UNCHANGED <<now, pool, history, reclaimVars, lockVars>>

\* recordReclaim of a tracked address: saveRegistry is its last statement
RecordReclaimSaveThrows(p, address, lamportsReclaimed) ==
  /\ pc[p] = "ready"
  /\ isAccountTracked(registry[p], address)
  /\ LET reg == recordReclaim(registry[p], address, lamportsReclaimed)
     IN  /\ reg.metrics.totalAccountsClosed <= MaxClosed
         /\ registry' = [registry EXCEPT ![p] = reg]
         /\ result' = [ op |-> "recordReclaim", proc |-> p,
                        address |-> address,
                        lamportsReclaimed |-> lamportsReclaimed,
                        tracked |-> TRUE,
                        saveThrew |-> TRUE, threw |-> TRUE ]
  /\ SaveThrows(p)
  /\ UNCHANGED <<now, pool, history, reclaimVars, lockVars>>

\* the operator's transactions while the tracker is maintained: two
\* accounts, or one address created twice
MaintainHistories == { <<"S04", "S01">>, <<"S01", "S06">> }

MaintainInit ==
  /\ now = StartNow
  /\ pool = {}
  /\ history \in MaintainHistories
  /\ pc = [p \in Procs |-> "off"]
  /\ op = [p \in Procs |-> "none"]
  /\ registry = [p \in Procs |-> NewRegistry]
  /\ file = Missing
  /\ tmpFile = Missing
  /\ target = [p \in Procs |-> "none"]
  /\ result = NoResult
  /\ ReclaimIdle
  /\ LockIdle

MaintainNext ==
  \/ Start("P1")
  \/ \E limit \in 1..MaxHistory :
       \E fetch \in [1..Len(FirstN(history, limit)) -> FetchOutcomes] :
         \/ Ingest("P1", limit, fetch)
         \/ IngestSaveThrows("P1", limit, fetch)
  \/ \E reads \in [1..Len(registry["P1"].accounts) -> RefreshReads] :
       \/ Refresh("P1", reads)
       \/ RefreshSaveThrows("P1", reads)
  \/ \E address \in {A1, A2}, lamports \in ReclaimAmounts :
       \/ RecordReclaim("P1", address, lamports)
       \/ RecordReclaimSaveThrows("P1", address, lamports)

MaintainSpec == MaintainInit /\ [][MaintainNext]_vars

\* ------------------------------------------------------------------------
\* Ingestion alone, over every shape of transaction
\* ------------------------------------------------------------------------
ClassifyInit ==
  /\ now = StartNow
  /\ pool = Signatures
  /\ TrackerIdle
  /\ ReclaimIdle
  /\ LockIdle

ClassifyNext ==
  \/ \E sig \in Signatures : NewTransaction(sig)
  \/ Start("P1")
  \/ \E limit \in 1..MaxHistory :
       \E fetch \in [1..Len(FirstN(history, limit)) -> FetchOutcomes] :
         Ingest("P1", limit, fetch)

ClassifySpec == ClassifyInit /\ [][ClassifyNext]_vars

\* ------------------------------------------------------------------------
\* The reclaimer over a tracked registry and a chain that moves
\* ------------------------------------------------------------------------
SystemEmpty == AccountInfo(RENT_0, SYSTEM_PROGRAM, << >>)
SystemWithData == AccountInfo(RENT_0, SYSTEM_PROGRAM, <<0, 1>>)
OwnedByOperator == AccountInfo(RENT_0, OP, << >>)
TokenOf(owner, amountBytes) ==
  AccountInfo(ATA_RENT, TOKEN_PROGRAM_ID, TokenData(owner, amountBytes))

\* what the chain may hold at the address of the token account (A1) and at
\* the address of the system or seeded account (A2)
ChainReads(address) ==
  IF address = A1
  THEN { ReadNull, ReadInfo(SystemEmpty), ReadInfo(TokenOf(OP, AmountZero)),
         ReadInfo(TokenOf(U1, AmountZero)), ReadInfo(TokenOf(U1, AmountOne)) }
  ELSE { ReadNull, ReadInfo(SystemEmpty), ReadInfo(SystemWithData),
         ReadInfo(OwnedByOperator) }

Keypairs == {OP, NoKeypair}

\* the safety configurations a run is made with, and the ones a single
\* validation is made with
RunConfigs ==
  { DEFAULT_SAFETY_CONFIG,
    [DEFAULT_SAFETY_CONFIG EXCEPT !.maxReclaimPerAccount = RENT_0],
    [DEFAULT_SAFETY_CONFIG EXCEPT !.maxAccountsPerRun = 1] }

Configs ==
  RunConfigs \cup
  { [DEFAULT_SAFETY_CONFIG EXCEPT !.denyList = {A1}],
    [DEFAULT_SAFETY_CONFIG EXCEPT !.allowList = {A2}],
    [DEFAULT_SAFETY_CONFIG EXCEPT !.denyList = {A1}, !.allowList = {A2},
                                  !.minInactiveDays = 10],
    [DEFAULT_SAFETY_CONFIG EXCEPT !.allowList = {A2}, !.minInactiveDays = 10] }

\* what the RPC does during one validation or one loop iteration: all calls
\* answer, or exactly one of them fails or reports recent activity
AllOk ==
  [ sigs |-> SigsOk(<< >>), readOk |-> TRUE, tokOk |-> TRUE,
    read2Ok |-> TRUE, txOk |-> TRUE, afterOk |-> TRUE, spent |-> 0,
    notifyOk |-> TRUE ]

RunInputs ==
  { AllOk,
    [AllOk EXCEPT !.sigs = SigsOk(<<0, 9 * DaySec>>)],
    [AllOk EXCEPT !.sigs = SigsThrow],
    [AllOk EXCEPT !.readOk = FALSE],
    [AllOk EXCEPT !.tokOk = FALSE],
    [AllOk EXCEPT !.read2Ok = FALSE],
    [AllOk EXCEPT !.txOk = FALSE],
    [AllOk EXCEPT !.afterOk = FALSE] }

\* the inputs that differ in what validateAccount sees
ValidateInputs ==
  { in \in RunInputs : in.read2Ok /\ in.txOk /\ in.afterOk } \cup
  { [AllOk EXCEPT !.sigs = SigsOk(<<0, DaySec>>)] }

\* the RPC during a run over n accounts: at most one iteration sees a fault
RunScenarios(n) ==
  { [i \in 1..n |-> AllOk] } \cup
  { [i \in 1..n |-> IF i = k THEN in ELSE AllOk] : k \in 1..n, in \in RunInputs }

\* nothing of the last reclaimer call is still being looked at
Returned == validation = NoValidation /\ report = NoReport

\* the chain moves on: an account appears, changes or goes away
ChainMoves(address, read) ==
  /\ Returned
  /\ chain[address] # read
  /\ chain' = [chain EXCEPT ![address] = read]
  /\ UNCHANGED <<now, trackerVars, impl, treasury, validation, call, report,
                 visited, dispatched, notified, lockVars>>

\* reclaimer.validateAccount(account) on a tracked account
Validate(p, i, keypair, cfg, in) ==
  /\ Returned
  /\ pc[p] = "ready"
  /\ i \in 1..Len(registry[p].accounts)
  /\ LET account == registry[p].accounts[i]
         read == chain[account.address]
     IN  validation' =
           [ kind |-> "validated", account |-> account, keypair |-> keypair,
             cfg |-> cfg, read |-> read, in |-> in,
             res |-> validateAccount(impl, account, cfg, keypair, now, in.sigs,
                                     IF in.readOk THEN read ELSE ReadThrow,
                                     in.tokOk) ]
  /\ UNCHANGED <<now, trackerVars, impl, chain, treasury, call, report,
                 visited, dispatched, notified, lockVars>>

\* reclaimer.executeReclaim(tracker.getReclaimableAccounts(), dryRun, onReclaim)
\* as bot.ts calls it; the callback's recordReclaim saves the registry
ExecuteReclaim(p, dryRun, keypair, cfg, ins, balanceOk) ==
  /\ Returned
  /\ pc[p] = "ready"
  /\ balanceOk \/ \A i \in 1..Len(ins) : ins[i] = AllOk
  /\ LET end == executeReclaim(impl, getReclaimableAccounts(registry[p]), dryRun,
                               cfg, keypair, ins, balanceOk, now,
                               [ chain |-> chain, treasury |-> treasury,
                                 reg |-> registry[p] ])
     IN  /\ end.reg.metrics.totalAccountsClosed <= MaxClosed
         /\ end.treasury <= MaxClosed * ATA_RENT
         /\ chain' = end.chain
         /\ treasury' = end.treasury
         /\ registry' = [registry EXCEPT ![p] = end.reg]
         /\ file' = IF Len(end.written) > 0
                    THEN Full(end.written[Len(end.written)]) ELSE file
         /\ report' = IF end.thrown
                      THEN [kind |-> "throw", dryRun |-> dryRun]
                      ELSE end.report
         /\ call' = [ kind |-> "executeReclaim",
                       accounts |-> getReclaimableAccounts(registry[p]),
                       dryRun |-> dryRun, cfg |-> cfg, keypair |-> keypair,
                       ins |-> ins, balanceOk |-> balanceOk ]
         /\ visited' = end.visited
         /\ dispatched' = end.dispatched
         /\ notified' = end.notified
  /\ UNCHANGED <<now, pool, history, pc, op, tmpFile, target, result,
                 impl, validation, lockVars>>

\* the caller is done with the result
Return ==
  /\ ~Returned
  /\ validation' = NoValidation
  /\ call' = NoCall
  /\ report' = NoReport
  /\ visited' = << >>
  /\ dispatched' = << >>
  /\ notified' = << >>
  /\ UNCHANGED <<now, trackerVars, impl, chain, treasury, lockVars>>

\* the histories the reclaimer's registry was built from
ReclaimHistories == { <<"S04", "S01">>, <<"S09", "S01">> }

\* the chain when the registry was last refreshed
ChainAtRefresh ==
  [a \in {A1, A2} |->
     IF a = A1 THEN ReadInfo(TokenOf(U1, AmountZero)) ELSE ReadInfo(SystemEmpty)]

\* the registry after the bot ingested h and refreshed against the chain
RegistryAfter(h) ==
  LET ingested == ingestTransactionHistory(NewRegistry, h,
                    [i \in 1..Len(h) |-> "ok"], StartNow).reg
  IN  refreshAccountStatuses(ingested,
        [i \in 1..Len(ingested.accounts) |-> ChainAtRefresh[ingested.accounts[i].address]],
        StartNow).reg

ReclaimInit ==
  /\ now = StartNow
  /\ pool = {}
  /\ history \in ReclaimHistories
  /\ pc = [p \in Procs |-> IF p = "P1" THEN "ready" ELSE "off"]
  /\ op = [p \in Procs |-> "none"]
  /\ registry = [p \in Procs |-> IF p = "P1" THEN RegistryAfter(history) ELSE NewRegistry]
  /\ file = Full(RegistryAfter(history))
  /\ tmpFile = Missing
  /\ target = [p \in Procs |-> "none"]
  /\ result = NoResult
  /\ impl \in {"core", "part007"}
  /\ chain = ChainAtRefresh
  /\ treasury = 0
  /\ validation = NoValidation
  /\ call = NoCall
  /\ report = NoReport
  /\ visited = << >>
  /\ dispatched = << >>
  /\ notified = << >>
  /\ LockIdle

ReclaimNext ==
  \/ \E address \in {A1, A2} : \E read \in ChainReads(address) :
       ChainMoves(address, read)
  \/ /\ Returned
     /\ \E i \in 1..Len(registry["P1"].accounts), keypair \in Keypairs,
            cfg \in Configs, in \in ValidateInputs :
          Validate("P1", i, keypair, cfg, in)
  \/ /\ Returned
     /\ \E ins \in RunScenarios(Len(getReclaimableAccounts(registry["P1"]))) :
          \E dryRun \in BOOLEAN, keypair \in Keypairs, cfg \in RunConfigs,
             balanceOk \in BOOLEAN :
            ExecuteReclaim("P1", dryRun, keypair, cfg, ins, balanceOk)
  \/ Return

ReclaimSpec == ReclaimInit /\ [][ReclaimNext]_vars

\* ------------------------------------------------------------------------
\* Two tracker processes on one registry file, saveRegistry step by step
\* ------------------------------------------------------------------------
\* a mutating operation ran in memory and now calls saveRegistry
IngestMem(p, limit) ==
  /\ pc[p] = "ready"
  /\ IngestEffect(p, limit, [i \in 1..Len(FirstN(history, limit)) |-> "ok"])
  /\ pc' = [pc EXCEPT ![p] = "save"]
  /\ op' = [op EXCEPT ![p] = "ingest"]
  /\ UNCHANGED <<now, pool, history, file, tmpFile, target, reclaimVars, lockVars>>

\* writeFileSync(tempPath, ...) opens the temp path, truncating what is there
BeginWrite(p) ==
  /\ pc[p] = "save"
  /\ tmpFile' = Partial
  /\ target' = [target EXCEPT ![p] = "tmp"]
  /\ pc' = [pc EXCEPT ![p] = "writing"]
  /\ UNCHANGED <<now, pool, history, op, registry, file, result, reclaimVars, lockVars>>

\* writeFileSync writes the JSON into the file it opened and closes it; the
\* file may have been renamed onto registryPath, or replaced, meanwhile
FinishWrite(p) ==
  /\ pc[p] = "writing"
  /\ tmpFile' = IF target[p] = "tmp" THEN Full(registry[p]) ELSE tmpFile
  /\ file' = IF target[p] = "file" THEN Full(registry[p]) ELSE file
  /\ target' = [target EXCEPT ![p] = "none"]
  /\ pc' = [pc EXCEPT ![p] = "rename"]
  /\ UNCHANGED <<now, pool, history, op, registry, result, reclaimVars, lockVars>>

\* renameSync(tempPath, registryPath); it throws when the temp path is gone
Rename(p) ==
  /\ pc[p] = "rename"
  /\ IF tmpFile = Missing
     THEN UNCHANGED <<file, tmpFile, target>>
     ELSE /\ file' = tmpFile
          /\ tmpFile' = Missing
          /\ target' = [q \in Procs |->
                          IF target[q] = "tmp" THEN "file"
                          ELSE IF target[q] = "file" THEN "orphan"
                          ELSE target[q]]
  /\ pc' = [pc EXCEPT ![p] = "ready"]
  /\ op' = [op EXCEPT ![p] = "none"]
  /\ UNCHANGED <<now, pool, history, registry, result, reclaimVars, lockVars>>

\* the process dies wherever it is
Crash(p) ==
  /\ pc[p] # "off"
  /\ pc' = [pc EXCEPT ![p] = "off"]
  /\ op' = [op EXCEPT ![p] = "none"]
  /\ target' = [target EXCEPT ![p] = "none"]
  /\ registry' = [registry EXCEPT ![p] = NewRegistry]
  /\ UNCHANGED <<now, pool, history, file, tmpFile, result, reclaimVars, lockVars>>

PersistInit ==
  /\ now = StartNow
  /\ pool = {}
  /\ history = <<"S04", "S01">>
  /\ pc = [p \in Procs |-> "off"]
  /\ op = [p \in Procs |-> "none"]
  /\ registry = [p \in Procs |-> NewRegistry]
  /\ file = Missing
  /\ tmpFile = Missing
  /\ target = [p \in Procs |-> "none"]
  /\ result = NoResult
  /\ ReclaimIdle
  /\ LockIdle

PersistStep(p) ==
  \/ Start(p)
  \/ \E limit \in 1..MaxHistory : IngestMem(p, limit)
  \/ BeginWrite(p)
  \/ FinishWrite(p)
  \/ Rename(p)
  \/ Crash(p)

PersistNext == \E p \in Procs : PersistStep(p)

PersistSpec == PersistInit /\ [][PersistNext]_vars

\* ------------------------------------------------------------------------
\* ingestTransactionHistory batch by batch, the process killed in between
\* ------------------------------------------------------------------------
batchSize == 5

\* the operator's transactions, newest first: more than one batch
ResumeHistory == <<"S04", "S01", "S03", "S13", "S15", "S06">>

ResumeLimits == {1, batchSize, batchSize + 1}

\* what getParsedTransaction does for the n signatures of a batch: at most
\* one of them is not found or fails
ResumeFetches(n) ==
  { f \in [1..n -> FetchOutcomes] : Cardinality({ i \in 1..n : f[i] # "ok" }) <= 1 }

\* ingestTransactionHistory is called and getSignaturesForAddress answers
IngestBegin(p, limit) ==
  /\ pc[p] = "ready"
  /\ call = NoCall
  /\ call' = [ kind |-> "ingestTransactionHistory", proc |-> p,
               signatures |-> FirstN(history, limit), i |-> 0, batches |-> 0,
               transactionsProcessed |-> 0, newAccountsFound |-> 0,
               errors |-> 0, fetched |-> << >>, outcomes |-> << >> ]
  /\ pc' = [pc EXCEPT ![p] = "batch"]
  /\ op' = [op EXCEPT ![p] = "ingest"]
  /\ UNCHANGED <<now, pool, history, registry, file, tmpFile, target, result,
                 impl, chain, treasury, validation, report, visited, dispatched,
                 notified, lockVars>>

\* one pass of the batch loop: signatures.slice(i, i + batchSize) is
\* processed in memory; nothing is written
IngestBatch(p, fetch) ==
  /\ pc[p] = "batch"
  /\ call.i < Len(call.signatures)
  /\ LET batch == slice(call.signatures, call.i, call.i + batchSize)
         st == ingestLoop([ reg |-> registry[p],
                            transactionsProcessed |-> call.transactionsProcessed,
                            newAccountsFound |-> call.newAccountsFound,
                            errors |-> call.errors,
                            fetched |-> call.fetched ],
                          batch, 1, fetch, now)
     IN  /\ DOMAIN fetch = 1..Len(batch)
         /\ registry' = [registry EXCEPT ![p] = st.reg]
         /\ call' = [call EXCEPT !.i = @ + batchSize,
                                 !.batches = @ + 1,
                                 !.transactionsProcessed = st.transactionsProcessed,
                                 !.newAccountsFound = st.newAccountsFound,
                                 !.errors = st.errors,
                                 !.fetched = st.fetched,
                                 !.outcomes = @ \o fetch]
  /\ UNCHANGED <<now, pool, history, pc, op, file, tmpFile, target, result,
                 impl, chain, treasury, validation, report, visited, dispatched,
                 notified, lockVars>>

\* after the last batch: lastProcessedSignature, saveRegistry, return
IngestEnd(p) ==
  /\ pc[p] = "batch"
  /\ call.i >= Len(call.signatures)
  /\ registry' = [registry EXCEPT ![p].lastProcessedSignature =
                    IF Len(call.signatures) > 0
                    THEN call.signatures[Len(call.signatures)] ELSE @]
  /\ file' = Full(registry'[p])
  /\ result' = [ op |-> "ingest", proc |-> p, signatures |-> call.signatures,
                 complete |-> call.errors = 0, repeat |-> FALSE,
                 newAccountsFound |-> call.newAccountsFound,
                 fetched |-> call.fetched,
                 transactionsProcessed |-> call.transactionsProcessed,
                 errors |-> call.errors ]
  /\ call' = NoCall
  /\ pc' = [pc EXCEPT ![p] = "ready"]
  /\ op' = [op EXCEPT ![p] = "none"]
  /\ UNCHANGED <<now, pool, history, tmpFile, target,
                 impl, chain, treasury, validation, report, visited, dispatched,
                 notified, lockVars>>

\* the process is killed during an ingestion, between two batches; what it
\* held in memory is gone
Kill(p) ==
  /\ pc[p] = "batch"
  /\ result' = [ op |-> "killed", proc |-> p, batches |-> call.batches,
                 accounts |-> registry[p].accounts,
                 metrics |-> registry[p].metrics ]
  /\ registry' = [registry EXCEPT ![p] = NewRegistry]
  /\ call' = NoCall
  /\ pc' = [pc EXCEPT ![p] = "off"]
  /\ op' = [op EXCEPT ![p] = "none"]
  /\ UNCHANGED <<now, pool, history, file, tmpFile, target,
                 impl, chain, treasury, validation, report, visited, dispatched,
                 notified, lockVars>>

ResumeInit ==
  /\ now = StartNow
  /\ pool = {}
  /\ history = ResumeHistory
  /\ pc = [p \in Procs |-> "off"]
  /\ op = [p \in Procs |-> "none"]
  /\ registry = [p \in Procs |-> NewRegistry]
  /\ file = Missing
  /\ tmpFile = Missing
  /\ target = [p \in Procs |-> "none"]
  /\ result = NoResult
  /\ ReclaimIdle
  /\ LockIdle

ResumeNext ==
  \/ Start("P1")
  \/ \E limit \in ResumeLimits : IngestBegin("P1", limit)
  \/ \E fetch \in UNION { ResumeFetches(n) : n \in 1..batchSize } :
       IngestBatch("P1", fetch)
  \/ IngestEnd("P1")
  \/ Kill("P1")

ResumeSpec == ResumeInit /\ [][ResumeNext]_vars

\* ------------------------------------------------------------------------
\* acquireLock and releaseLock step by step, two processes, time passing
\* ------------------------------------------------------------------------
StaleAfterMs == 5 * MinuteMs

LockContent(p, mtimeMs) == [kind |-> "lock", pid |-> p, mtimeMs |-> mtimeMs]

\* acquireLock is called
AcquireBegin(p) ==
  /\ lockpc[p] = "idle"
  /\ ~lockHeld[p].held
  /\ lockpc' = [lockpc EXCEPT ![p] = "exists"]
  /\ UNCHANGED <<now, trackerVars, reclaimVars, lockFile, lockHeld>>

\* fs.existsSync(lockPath)
AcquireExists(p) ==
  /\ lockpc[p] = "exists"
  /\ lockpc' = [lockpc EXCEPT ![p] = IF lockFile = Missing THEN "write" ELSE "stat"]
  /\ UNCHANGED <<now, trackerVars, reclaimVars, lockFile, lockHeld>>

\* fs.statSync(lockPath) and the age test; a missing file throws: return false
AcquireStat(p) ==
  /\ lockpc[p] = "stat"
  /\ lockpc' = [lockpc EXCEPT ![p] =
                  IF lockFile = Missing THEN "idle"
                  ELSE IF now - lockFile.mtimeMs < StaleAfterMs THEN "idle"
                  ELSE "unlink"]
  /\ UNCHANGED <<now, trackerVars, reclaimVars, lockFile, lockHeld>>

\* fs.unlinkSync(lockPath) of the stale lock; a missing file throws: return false
AcquireUnlink(p) ==
  /\ lockpc[p] = "unlink"
  /\ lockpc' = [lockpc EXCEPT ![p] = IF lockFile = Missing THEN "idle" ELSE "write"]
  /\ lockFile' = Missing
  /\ UNCHANGED <<now, trackerVars, reclaimVars, lockHeld>>

\* fs.writeFileSync(lockPath, pid); return true
AcquireWrite(p) ==
  /\ lockpc[p] = "write"
  /\ lockFile' = LockContent(p, now)
  /\ lockHeld' = [lockHeld EXCEPT ![p] = [held |-> TRUE, since |-> now]]
  /\ lockpc' = [lockpc EXCEPT ![p] = "idle"]
  /\ UNCHANGED <<now, trackerVars, reclaimVars>>

\* releaseLock by the process that got true: existsSync ...
ReleaseExists(p) ==
  /\ lockpc[p] = "idle"
  /\ lockHeld[p].held
  /\ lockpc' = [lockpc EXCEPT ![p] = IF lockFile = Missing THEN "released" ELSE "runlink"]
  /\ UNCHANGED <<now, trackerVars, reclaimVars, lockFile, lockHeld>>

\* ... then unlinkSync, errors ignored
ReleaseUnlink(p) ==
  /\ lockpc[p] \in {"runlink", "released"}
  /\ lockFile' = IF lockpc[p] = "runlink" THEN Missing ELSE lockFile
  /\ lockHeld' = [lockHeld EXCEPT ![p] = NotHeld]
  /\ lockpc' = [lockpc EXCEPT ![p] = "idle"]
  /\ UNCHANGED <<now, trackerVars, reclaimVars>>

\* a minute passes
Tick ==
  /\ now < StartNow + MaxMinutes * MinuteMs
  /\ now' = now + MinuteMs
  /\ UNCHANGED <<trackerVars, reclaimVars, lockVars>>

LockInit ==
  /\ now = StartNow
  /\ pool = {}
  /\ TrackerIdle
  /\ ReclaimIdle
  /\ LockIdle

LockStep(p) ==
  \/ AcquireBegin(p)
  \/ AcquireExists(p)
  \/ AcquireStat(p)
  \/ AcquireUnlink(p)
  \/ AcquireWrite(p)
  \/ ReleaseExists(p)
  \/ ReleaseUnlink(p)

LockNext == Tick \/ \E p \in Procs : LockStep(p)

LockSpec == LockInit /\ [][LockNext]_vars

\* ------------------------------------------------------------------------
\* Live runs over two token accounts while the treasury is also spent from
\* ------------------------------------------------------------------------
\* the registry after the bot ingested h
Ingested(h) ==
  ingestTransactionHistory(NewRegistry, h, [i \in 1..Len(h) |-> "ok"], StartNow).reg

\* both token accounts are empty and the operator's keypair may close them
VerifyChain == [a \in {A1, A2} |-> ReadInfo(TokenOf(OP, AmountZero))]

VerifyRegistry ==
  LET ingested == Ingested(<<"S20", "S01">>)
  IN  refreshAccountStatuses(ingested,
        [i \in 1..Len(ingested.accounts) |-> VerifyChain[ingested.accounts[i].address]],
        StartNow).reg

\* the RPC, the treasury and the disk during a run over n accounts: at most
\* one iteration sees a failing send, a payment out of the treasury or a
\* registry file that cannot be written
VerifyScenarios(n) ==
  { [i \in 1..n |-> AllOk] } \cup
  { [i \in 1..n |-> IF i = k THEN in ELSE AllOk] :
      k \in 1..n,
      in \in { [AllOk EXCEPT !.txOk = FALSE], [AllOk EXCEPT !.afterOk = FALSE],
               [AllOk EXCEPT !.spent = RENT_0], [AllOk EXCEPT !.spent = ATA_RENT],
               [AllOk EXCEPT !.notifyOk = FALSE] } }

VerifyInit ==
  /\ now = StartNow
  /\ pool = {}
  /\ history = <<"S20", "S01">>
  /\ pc = [p \in Procs |-> IF p = "P1" THEN "ready" ELSE "off"]
  /\ op = [p \in Procs |-> "none"]
  /\ registry = [p \in Procs |-> IF p = "P1" THEN VerifyRegistry ELSE NewRegistry]
  /\ file = Full(VerifyRegistry)
  /\ tmpFile = Missing
  /\ target = [p \in Procs |-> "none"]
  /\ result = NoResult
  /\ impl \in {"core", "part007"}
  /\ chain = VerifyChain
  /\ treasury = 0
  /\ validation = NoValidation
  /\ call = NoCall
  /\ report = NoReport
  /\ visited = << >>
  /\ dispatched = << >>
  /\ notified = << >>
  /\ LockIdle

VerifyNext ==
  \/ \E address \in {A1, A2} :
       \E read \in {ReadNull, ReadInfo(TokenOf(U1, AmountZero))} :
         ChainMoves(address, read)
  \/ /\ Returned
     /\ \E ins \in VerifyScenarios(Len(getReclaimableAccounts(registry["P1"]))) :
          \E dryRun \in BOOLEAN, keypair \in Keypairs, cfg \in RunConfigs :
            ExecuteReclaim("P1", dryRun, keypair, cfg, ins, TRUE)
  \/ Return

VerifySpec == VerifyInit /\ [][VerifyNext]_vars

\* ------------------------------------------------------------------------
\* refreshAccountStatuses against what the chain holds
\* ------------------------------------------------------------------------
\* a token, a system and a seeded account are tracked
StatusHistories == { <<"S04", "S01">>, <<"S09", "S01">> }

\* account data around the 72 bytes the token branch asks for
StatusData ==
  { << >>, <<0, 1>>, Zeros(8), Zeros(71), Zeros(72),
    TokenData(U1, AmountZero), TokenData(U1, AmountOne), TokenData(U1, AmountHigh) }

StatusReads ==
  {ReadNull} \cup { ReadInfo(AccountInfo(RENT_0, SYSTEM_PROGRAM, d)) : d \in StatusData }

\* the account at the address is created, written to or closed on the chain
ChainHolds(address, read) ==
  /\ chain[address] # read
  /\ chain' = [chain EXCEPT ![address] = read]
  /\ UNCHANGED <<now, trackerVars, impl, treasury, validation, call, report,
                 visited, dispatched, notified, lockVars>>

\* refreshAccountStatuses, every getAccountInfo answering with what the
\* chain holds
RefreshFromChain(p) ==
  Refresh(p, [i \in 1..Len(registry[p].accounts) |-> chain[registry[p].accounts[i].address]])

StatusInit ==
  /\ now = StartNow
  /\ pool = {}
  /\ history \in StatusHistories
  /\ pc = [p \in Procs |-> IF p = "P1" THEN "ready" ELSE "off"]
  /\ op = [p \in Procs |-> "none"]
  /\ registry = [p \in Procs |-> IF p = "P1" THEN Ingested(history) ELSE NewRegistry]
  /\ file = Full(Ingested(history))
  /\ tmpFile = Missing
  /\ target = [p \in Procs |-> "none"]
  /\ result = NoResult
  /\ ReclaimIdle
  /\ LockIdle

StatusNext ==
  \/ \E address \in {A1, A2}, read \in StatusReads : ChainHolds(address, read)
  \/ RefreshFromChain("P1")

StatusSpec == StatusInit /\ [][StatusNext]_vars

\* ------------------------------------------------------------------------
\* The classifier on one transaction at a time, at any time of the day
\* ------------------------------------------------------------------------
\* the addresses calculateConfidence is asked about: the operator, a user
\* wallet, known programs and an unknown program
ConfidenceAddresses == {OP, U1, SYSTEM_PROGRAM, TOKEN_PROGRAM_ID, PX}

CalculateConfidence(p, beneficiary, operator, accountOwner) ==
  /\ pc[p] = "ready"
  /\ result' = [ op |-> "calculateConfidence", proc |-> p,
                 beneficiary |-> beneficiary, operator |-> operator,
                 accountOwner |-> accountOwner,
                 confidence |-> calculateConfidence(beneficiary, operator, accountOwner) ]
  /\ UNCHANGED <<now, pool, history, pc, op, registry, file, tmpFile, target,
                 reclaimVars, lockVars>>

ExtractInit ==
  /\ now = StartNow
  /\ pool = {}
  /\ history \in { <<sig>> : sig \in Signatures }
  /\ pc = [p \in Procs |-> "off"]
  /\ op = [p \in Procs |-> "none"]
  /\ registry = [p \in Procs |-> NewRegistry]
  /\ file = Missing
  /\ tmpFile = Missing
  /\ target = [p \in Procs |-> "none"]
  /\ result = NoResult
  /\ ReclaimIdle
  /\ LockIdle

ExtractNext ==
  \/ Tick
  \/ Start("P1")
  \/ \E fetch \in [1..1 -> FetchOutcomes] : Ingest("P1", 1, fetch)
  \/ \E beneficiary \in ConfidenceAddresses, operator \in {OP, U1},
        accountOwner \in ConfidenceAddresses :
       CalculateConfidence("P1", beneficiary, operator, accountOwner)

ExtractSpec == ExtractInit /\ [][ExtractNext]_vars

\* ------------------------------------------------------------------------
\* Properties
\* ------------------------------------------------------------------------
Tracked(p) == { registry[p].accounts[i] : i \in 1..Len(registry[p].accounts) }

\* C2: no tracked account has its beneficiary equal to the operator that
\* sponsored it (self-transactions are never recorded), whatever creation
\* shape it came from.
C2_NoSelfSponsorship ==
  \A p \in Procs : \A a \in Tracked(p) : a.beneficiary # a.sponsoredBy

\* C3: an ingestion that repeats the previous one over the same signatures,
\* every transaction fetched both times, leaves the tracked accounts and the
\* four metrics as the first run left them.
C3_IdempotentIngestion ==
  [][ (result'.op = "ingest" /\ result'.repeat)
        => /\ registry'[result'.proc].accounts = registry[result'.proc].accounts
           /\ registry'[result'.proc].metrics = registry[result'.proc].metrics ]_vars

\* C3 witness: a second run over two signatures with an account tracked.
C3_Witness ==
  /\ result.op = "ingest"
  /\ result.repeat
  /\ Len(result.signatures) = 2
  /\ Len(registry[result.proc].accounts) >= 1

\* C4: a refresh never takes an account out of status closed.
C4_ClosedIsSticky ==
  [][ result'.op = "refresh"
        => \A p \in Procs : \A i \in 1..Len(registry[p].accounts) :
             registry[p].accounts[i].status = "closed"
               => registry'[p].accounts[i].status = "closed" ]_vars

\* C1: whenever validateAccount answers canReclaim = true for a token
\* account, the token account on the chain is owned by the reclaimer's
\* keypair and holds exactly 0 tokens; this in both source files, also when
\* getAccount fails and when no keypair is loaded.
C1_TokenOwnershipGate ==
  (/\ validation.kind = "validated"
   /\ validation.account.accountType = "token"
   /\ validation.res.canReclaim)
    => LET tok == getAccount(validation.read, TRUE)
       IN  /\ tok.kind = "ok"
           /\ tok.owner = validation.keypair
           /\ IsZeroBig(tok.amount)

\* C5: a call of executeReclaim with dryRun = true dispatches no transaction
\* and hands nothing to onReclaim; the chain, the treasury, every tracked
\* account and the metrics, in memory and on disk, are after the call what
\* they were before it; the report it returns has the fields of a live
\* report and was saved.
C5_DryRunNonMutation ==
  [][ (report = NoReport /\ report' # NoReport /\ report'.dryRun)
        => /\ dispatched' = << >>
           /\ notified' = << >>
           /\ chain' = chain
           /\ treasury' = treasury
           /\ registry' = registry
           /\ file' = file
           /\ report'.kind = "report"
                => /\ report'.saved
                   /\ DOMAIN report' = DOMAIN NewReport(<< >>, FALSE) ]_vars

\* C5 witness: a dry run returned a report that counts an account as
\* reclaimed.
C5_Witness ==
  /\ report.kind = "report"
  /\ report.dryRun
  /\ report.accountsReclaimed >= 1
  /\ Len(report.transactions) >= 1

\* C6: the file at registryPath is never partly written: a reader finds it
\* missing or holding one complete registry, whatever step of saveRegistry a
\* process is in or died in.
C6_NeverPartial == file.kind # "partial"

\* C7: a process is inside a mutating operation (in memory or in its
\* saveRegistry) only while it holds the lock, and two processes are never
\* inside mutating operations on the registry file at the same time.
C7_SingleWriter ==
  /\ \A p \in Procs : pc[p] \in {"save", "writing", "rename"} => lockHeld[p].held
  /\ ~ \A p \in Procs : pc[p] \in {"save", "writing", "rename"}

\* C8: at most one process at a time has got true from acquireLock for a
\* lock less than 5 minutes old.
C8_LockMutualExclusion ==
  \A p, q \in Procs :
    p # q => ~ /\ lockHeld[p].held /\ now - lockHeld[p].since < StaleAfterMs
               /\ lockHeld[q].held /\ now - lockHeld[q].since < StaleAfterMs

\* C9: validateAccount never answers canReclaim = true for a pda account,
\* and executeReclaim never hands the chain a transaction for a pda account.
C9_PdaNeverReclaimed ==
  /\ (validation.kind = "validated" /\ validation.account.accountType = "pda")
       => ~validation.res.canReclaim
  /\ \A i \in 1..Len(dispatched) : dispatched[i].accountType # "pda"

\* C9 witness: a live run over a tracked pda account that exists on the
\* chain with empty data, in which the transaction for the other account
\* was dispatched.
C9_Witness ==
  /\ report.kind = "report"
  /\ ~report.dryRun
  /\ report.accountsAnalyzed = 2
  /\ \E i \in 1..Len(registry["P1"].accounts) :
       /\ registry["P1"].accounts[i].accountType = "pda"
       /\ chain[registry["P1"].accounts[i].address] = ReadInfo(SystemEmpty)
  /\ Len(dispatched) >= 1

\* C10: whenever validateAccount answers canReclaim = true for a system (or
\* unknown) account, the account's owner on the chain is the reclaimer's
\* keypair and its data is empty or all zero.
C10_SystemOwnershipGate ==
  (/\ validation.kind = "validated"
   /\ validation.account.accountType \in {"system", "unknown"}
   /\ validation.res.canReclaim)
    => /\ validation.read.kind = "info"
       /\ validation.read.info.owner = validation.keypair
       /\ everyByteZero(validation.read.info.data)

\* ------------------------------------------------------------------------
\* What one validateAccount call was given, said in the words of the
\* safety checks and read off the inputs of the call
\* ------------------------------------------------------------------------
Validated == validation.kind = "validated" /\ validation.res.kind = "result"

InDenyList == validation.account.address \in validation.cfg.denyList

OffAllowList ==
  /\ validation.cfg.allowList # NoList
  /\ validation.account.address \notin validation.cfg.allowList

TooYoung ==
  now - validation.account.createdAt * 1000 < validation.cfg.minInactiveDays * DayMs

\* a signature the lookup returned whose block time is within recentWriteDays
RecentlyWritten ==
  /\ validation.in.sigs.kind = "ok"
  /\ \E k \in 1..Len(validation.in.sigs.blockTimes) :
       /\ validation.in.sigs.blockTimes[k] # 0
       /\ now - validation.in.sigs.blockTimes[k] * 1000
            < validation.cfg.recentWriteDays * DayMs

GoneFromChain == validation.in.readOk /\ validation.read.kind = "null"

OverValueCap ==
  /\ validation.in.readOk
  /\ validation.read.kind = "info"
  /\ validation.read.info.lamports > validation.cfg.maxReclaimPerAccount

PassesGeneralChecks ==
  /\ ~InDenyList /\ ~OffAllowList /\ ~TooYoung /\ ~RecentlyWritten
  /\ validation.in.readOk /\ validation.read.kind = "info"
  /\ ~OverValueCap

\* the token account on chain: parsed by the token program's layout
OnChainToken == getAccount(validation.read, validation.in.tokOk)

\* C11: a token account that passes the deny-list, allow-list, inactivity,
\* recent-write, existence and value-cap checks, holds a zero token balance
\* and whose on-chain token owner is not the configured keypair (or no
\* keypair is configured) is refused by every implementation with
\* canReclaim = false, riskLevel 'blocked' and the reason that the operator
\* sponsored the account but the user owns it.
C11_SponsoredNotOwnedIsBlocked ==
  ( /\ Validated
    /\ validation.account.accountType = "token"
    /\ PassesGeneralChecks
    /\ OnChainToken.kind = "ok"
    /\ IsZeroBig(OnChainToken.amount)
    /\ (validation.keypair = NoKeypair \/ OnChainToken.owner # validation.keypair) )
  => /\ ~validation.res.canReclaim
     /\ validation.res.riskLevel = "blocked"
     /\ validation.res.reason =
          "Cannot close: you sponsored this account but USER owns it (this is normal for Kora)"

\* C12: validateAccount evaluates deny-list, allow-list, inactivity,
\* recent-write, existence and value cap in that order and returns at the
\* first check that fails: the reason and riskLevel are those of the earliest
\* failing check (deny blocked, allow blocked, inactivity medium, recent
\* write high, missing account safe, value cap high), and no chain read that
\* belongs to a later check has been performed.
C12_FirstFailingCheckDecides ==
  validation.kind = "validated" =>
    LET res == validation.res
        Refused(reason, riskLevel, reads) ==
          /\ res.kind = "result"
          /\ ~res.canReclaim
          /\ res.reason = reason
          /\ res.riskLevel = riskLevel
          /\ res.reads = reads
    IN  /\ InDenyList =>
             Refused("Account is in deny list - BLOCKED", "blocked", << >>)
        /\ ~InDenyList /\ OffAllowList =>
             Refused("Account is not in allow list", "blocked", << >>)
        /\ ~InDenyList /\ ~OffAllowList /\ TooYoung =>
             Refused("Account is too young", "medium", << >>)
        /\ ~InDenyList /\ ~OffAllowList /\ ~TooYoung /\ RecentlyWritten =>
             Refused("Account has recent activity", "high",
                     <<"getSignaturesForAddress">>)
        /\ ~InDenyList /\ ~OffAllowList /\ ~TooYoung /\ ~RecentlyWritten
             /\ GoneFromChain =>
             Refused("Account already closed", "safe",
                     <<"getSignaturesForAddress", "getAccountInfo">>)
        /\ ~InDenyList /\ ~OffAllowList /\ ~TooYoung /\ ~RecentlyWritten
             /\ OverValueCap =>
             Refused("Account value exceeds max", "high",
                     <<"getSignaturesForAddress", "getAccountInfo">>)

\* an account both too young and recently written is refused as too young,
\* without the signature lookup
C12_Witness ==
  /\ Validated
  /\ ~InDenyList /\ ~OffAllowList /\ TooYoung /\ RecentlyWritten
  /\ validation.res.riskLevel = "medium"
  /\ validation.res.reads = << >>

\* C13: whenever validateAccount answers canReclaim = true, the address is
\* not in denyList, is in allowList if one is configured, the account is at
\* least minInactiveDays old, no signature returned by a successful lookup
\* has a block time within recentWriteDays, the account exists on chain and
\* its lamports are at most maxReclaimPerAccount.
C13_AcceptedPassedEveryCheck ==
  (Validated /\ validation.res.canReclaim) =>
    /\ validation.account.address \notin validation.cfg.denyList
    /\ validation.cfg.allowList # NoList =>
         validation.account.address \in validation.cfg.allowList
    /\ now - validation.account.createdAt * 1000
         >= validation.cfg.minInactiveDays * DayMs
    /\ ~RecentlyWritten
    /\ validation.in.readOk /\ validation.read.kind = "info"
    /\ validation.read.info.lamports <= validation.cfg.maxReclaimPerAccount

\* an account whose signatures are old or without a block time is accepted
C13_Witness ==
  /\ Validated
  /\ validation.res.canReclaim
  /\ validation.in.sigs = SigsOk(<<0, DaySec>>)

C15_AtaForUserIsTracked ==
  [][ ( /\ result'.op = "ingest"
        /\ result'.complete
        /\ result'.signatures = <<"S01">>
        /\ registry[result'.proc].accounts = << >>
        /\ registry[result'.proc].metrics = NewRegistry.metrics )
      => LET reg == registry'[result'.proc]
         IN  /\ Len(reg.accounts) = 1
             /\ reg.accounts[1].address = A1
             /\ reg.accounts[1].sponsoredBy = OP
             /\ reg.accounts[1].beneficiary = U1
             /\ reg.accounts[1].sponsorshipConfidence = "high"
             /\ reg.accounts[1].accountType = "token"
             /\ reg.accounts[1].rentLamports = 2039280
             /\ reg.accounts[1].status = "active"
             /\ reg.metrics.totalAccountsSponsored = 1
             /\ reg.metrics.totalRentLocked = 2039280 ]_vars

\* the registry right after that first ingestion
C15_Witness ==
  /\ result.op = "ingest"
  /\ result.complete
  /\ result.signatures = <<"S01">>
  /\ result.newAccountsFound = 1
  /\ Len(registry[result.proc].accounts) = 1
  /\ registry[result.proc].metrics.totalAccountsSponsored = 1

\* every instruction of the transaction is a createAccount the operator
\* funds for an account the operator itself owns
OnlyOwnAccounts(sig) ==
  /\ Len(TxOf(sig).instructions) > 0
  /\ \A i \in 1..Len(TxOf(sig).instructions) :
       LET ins == TxOf(sig).instructions[i]
       IN  /\ ins.parsed /\ ins.program = "system" /\ ins.type = "createAccount"
           /\ ins.info.source = OP
           /\ ins.info.owner = OP

\* C16: a createAccount with source = operator whose owner is the operator
\* yields no candidate, and ingesting transactions made only of such
\* instructions adds no account and changes no metric.
C16_OwnAccountsAreNotSponsored ==
  [][ ( /\ result'.op = "ingest"
        /\ Len(result'.signatures) > 0
        /\ \A i \in 1..Len(result'.signatures) : OnlyOwnAccounts(result'.signatures[i]) )
      => /\ \A i \in 1..Len(result'.signatures) :
              extractSponsoredAccounts(TxOf(result'.signatures[i]),
                                       result'.signatures[i], OP, now) = << >>
         /\ result'.newAccountsFound = 0
         /\ registry'[result'.proc].accounts = registry[result'.proc].accounts
         /\ registry'[result'.proc].metrics = registry[result'.proc].metrics ]_vars

\* such a transaction was fetched and ingested, after an account was tracked
C16_Witness ==
  /\ result.op = "ingest"
  /\ result.complete
  /\ result.signatures = <<"S03">>
  /\ Len(registry[result.proc].accounts) >= 1

\* ------------------------------------------------------------------------
\* What one executeReclaim call was given and did
\* ------------------------------------------------------------------------
\* the step is an executeReclaim call, from its arguments to what it left
RunsReclaim == call = NoCall /\ call' # NoCall

\* the candidates the per-run cap lets through, in input order
WithinCap(c) ==
  SubSeq(c.accounts, 1,
         IF c.cfg.maxAccountsPerRun < Len(c.accounts)
         THEN c.cfg.maxAccountsPerRun ELSE Len(c.accounts))

AddressesOf(accounts) == [i \in 1..Len(accounts) |-> accounts[i].address]

\* what validateAccount answers for the i-th candidate of the call c on the
\* chain ch (an iteration changes the chain at its own address only)
ValidationOf(c, i, ch) ==
  validateAccount(impl, c.accounts[i], c.cfg, c.keypair, now, c.ins[i].sigs,
                  IF c.ins[i].readOk THEN ch[c.accounts[i].address] ELSE ReadThrow,
                  c.ins[i].tokOk)

\* C17: onReclaim is invoked for an account only after that account's live
\* transaction was sent and confirmed: never in a dry run, never for an
\* account validation rejected, never without a keypair, never when the
\* dispatch threw; an account of the registry becomes closed in the run only
\* through the callback.
C17_CallbackOnlyAfterConfirmedSend ==
  [][ RunsReclaim =>
        /\ \A k \in 1..Len(notified') :
             \E j \in 1..Len(dispatched') :
               dispatched'[j].address = notified'[k] /\ dispatched'[j].landed
        /\ call'.dryRun => notified' = << >>
        /\ call'.keypair = NoKeypair => notified' = << >>
        /\ \A i \in 1..Len(call'.accounts) :
             \/ ~ValidationOf(call', i, chain).canReclaim
             \/ ~call'.ins[i].txOk
             => \A k \in 1..Len(notified') : notified'[k] # call'.accounts[i].address
        /\ \A p \in Procs : \A i \in 1..Len(registry[p].accounts) :
             /\ registry[p].accounts[i].status # "closed"
             /\ registry'[p].accounts[i].status = "closed"
             => \E k \in 1..Len(notified') :
                  notified'[k] = registry[p].accounts[i].address ]_vars

\* a live run in which one transaction failed and another was confirmed and
\* reported to the callback
C17_Witness ==
  /\ call # NoCall
  /\ ~call.dryRun
  /\ Len(notified) = 1
  /\ \E j \in 1..Len(dispatched) : ~dispatched[j].landed
  /\ \E i \in 1..Len(registry["P1"].accounts) :
       /\ registry["P1"].accounts[i].address = notified[1]
       /\ registry["P1"].accounts[i].status = "closed"

\* no read outside the try block of the loop fails during the call
ReadsAnswer ==
  /\ call.balanceOk
  /\ \A i \in 1..Len(call.accounts) : call.ins[i].readOk /\ call.ins[i].read2Ok

\* C18: in a live run, an exception thrown while sending or confirming one
\* account's transaction is caught, recorded in report.errors with its
\* message and counted in accountsFailed; the remaining candidates are still
\* processed and the report is still saved.
C18_DispatchFailureIsContained ==
  ( /\ call # NoCall
    /\ ~call.dryRun
    /\ ReadsAnswer
    /\ \E j \in 1..Len(dispatched) : ~dispatched[j].landed )
  => /\ report.kind = "report"
     /\ report.saved
     /\ visited = AddressesOf(WithinCap(call))
     /\ report.accountsFailed = Len(report.errors)
     /\ \A j \in 1..Len(dispatched) :
          ~dispatched[j].landed =>
            \E e \in 1..Len(report.errors) :
              /\ report.errors[e].address = dispatched[j].address
              /\ report.errors[e].error = "send failed"

\* the first candidate's transaction failed and the second one's then landed
C18_Witness ==
  /\ call # NoCall
  /\ ~call.dryRun
  /\ Len(dispatched) = 2
  /\ ~dispatched[1].landed
  /\ dispatched[2].landed
  /\ report.kind = "report"
  /\ report.saved
  /\ report.accountsFailed = 1
  /\ report.accountsReclaimed = 1

\* C19: a chain read that fails (getAccountInfo or getBalance throwing) while
\* one candidate is validated or snapshotted does not abort the run: the
\* rest of the candidates are processed and the report is returned and saved.
C19_ReadFailureIsContained ==
  call # NoCall =>
    /\ report.kind = "report"
    /\ report.saved
    /\ visited = AddressesOf(WithinCap(call))

Preview(rep) ==
  [ rep EXCEPT
      !.dryRun = TRUE,
      !.transactions =
         [k \in 1..Len(rep.transactions) |->
            [rep.transactions[k] EXCEPT !.txSignature = "-",
                                        !.treasuryBalanceAfter = 0]] ]

\* C21: for the same reclaimer, candidate list and chain, a dry run and a
\* live run in which every transaction succeeds and empties the account give
\* reports that agree on accountsAnalyzed, accountsValidated,
\* accountsReclaimed, the transaction addresses, each lamportsBefore and
\* totalLamportsReclaimed, and differ only in txSignature and the recorded
\* treasury-after values.
C21_DryRunIsFaithfulPreview ==
  [][ ( /\ RunsReclaim
        /\ ~call'.dryRun
        /\ report'.kind = "report"
        /\ report'.accountsFailed = 0
        /\ \A j \in 1..Len(dispatched') : dispatched'[j].landed
        /\ \A k \in 1..Len(report'.transactions) :
             report'.transactions[k].lamportsAfter = 0 )
      => LET dry == executeReclaim(impl, call'.accounts, TRUE, call'.cfg,
                                   call'.keypair, call'.ins, call'.balanceOk, now,
                                   [ chain |-> chain, treasury |-> treasury,
                                     reg |-> registry["P1"] ]).report
         IN  /\ dry.accountsAnalyzed = report'.accountsAnalyzed
             /\ dry.accountsValidated = report'.accountsValidated
             /\ dry.accountsReclaimed = report'.accountsReclaimed
             /\ dry.totalLamportsReclaimed = report'.totalLamportsReclaimed
             /\ Len(dry.transactions) = Len(report'.transactions)
             /\ \A k \in 1..Len(dry.transactions) :
                  /\ dry.transactions[k].address = report'.transactions[k].address
                  /\ dry.transactions[k].lamportsBefore =
                       report'.transactions[k].lamportsBefore
             /\ Preview(dry) = Preview(report') ]_vars

\* a live run that closed one account and failed for none
C21_Witness ==
  /\ call # NoCall
  /\ ~call.dryRun
  /\ report.kind = "report"
  /\ report.accountsFailed = 0
  /\ report.accountsReclaimed = 1
  /\ report.totalLamportsReclaimed = ATA_RENT
  /\ Len(dispatched) = 1
  /\ dispatched[1].landed

\* C22: when saveRegistry throws during ingestTransactionHistory,
\* refreshAccountStatuses or recordReclaim, the operation surfaces the
\* failure to its caller instead of returning a normal result, and the
\* registry file persisted before is left as it was.
C22_SaveFailureSurfaces ==
  [][ ( /\ result' # result
        /\ "saveThrew" \in DOMAIN result'
        /\ result'.saveThrew )
      => /\ result'.threw
         /\ file' = file ]_vars

\* the rent of the accounts from position i on
RECURSIVE RentFrom(_, _)
RentFrom(accounts, i) ==
  IF i > Len(accounts) THEN 0
  ELSE accounts[i].rentLamports + RentFrom(accounts, i + 1)

\* the first candidate for the address among the candidates of a transaction
FirstCandidate(candidates, address) ==
  candidates[CHOOSE k \in 1..Len(candidates) :
               /\ candidates[k].address = address
               /\ \A j \in 1..(k - 1) : candidates[j].address # address]

\* C23: first-seen wins: during ingestion a candidate whose address is
\* already tracked leaves the existing records and all metrics unchanged,
\* and a candidate with a new address is appended and raises
\* totalAccountsSponsored by exactly 1 and totalRentLocked by exactly its
\* rentLamports, also when two instructions of one transaction create the
\* same address.
C23_FirstSeenWins ==
  [][ ( /\ result'.op = "ingest"
        /\ (result' # result \/ registry' # registry) ) =>
        LET old == registry[result'.proc]
            new == registry'[result'.proc]
            n == Len(old.accounts)
            m == Len(new.accounts)
        IN  /\ m >= n
            /\ SubSeq(new.accounts, 1, n) = old.accounts
            /\ \A i \in (n + 1)..m : \A j \in 1..(i - 1) :
                 new.accounts[j].address # new.accounts[i].address
            /\ \A i \in (n + 1)..m :
                 LET a == new.accounts[i]
                     sig == a.creationTxSignature
                 IN  /\ \E k \in 1..Len(result'.signatures) : result'.signatures[k] = sig
                     /\ a = FirstCandidate(extractSponsoredAccounts(TxOf(sig), sig, OP, now),
                                           a.address)
            /\ new.metrics.totalAccountsSponsored =
                 old.metrics.totalAccountsSponsored + (m - n)
            /\ new.metrics.totalRentLocked =
                 old.metrics.totalRentLocked + RentFrom(new.accounts, n + 1)
            /\ new.metrics.totalRentReclaimed = old.metrics.totalRentReclaimed
            /\ new.metrics.totalAccountsClosed = old.metrics.totalAccountsClosed
            /\ result'.newAccountsFound = m - n ]_vars

\* the transaction that creates one address twice was ingested after another
\* creation of the same address: one record, counted once, the first seen
C23_Witness ==
  /\ result.op = "ingest"
  /\ result.complete
  /\ result.signatures = <<"S06", "S14">>
  /\ Len(registry["P1"].accounts) = 1
  /\ registry["P1"].accounts[1].creationTxSignature = "S06"
  /\ registry["P1"].metrics.totalAccountsSponsored = 1

\* C24: over any sequence of refreshAccountStatuses and recordReclaim calls
\* totalAccountsClosed is incremented at most once per tracked address, so it
\* never exceeds the number of tracked accounts.
C24_ClosedCountedOncePerAccount ==
  \A p \in DOMAIN registry :
    registry[p].metrics.totalAccountsClosed <= Len(registry[p].accounts)

\* a step in which a tracker operation returned or threw
Returns(name) ==
  /\ result'.op = name
  /\ (result' # result \/ registry' # registry)

SaveThrew(res) == "saveThrew" \in DOMAIN res /\ res.saveThrew

\* C25: recordReclaim(address, lamportsReclaimed) for a tracked address sets
\* the account's status to closed, adds lamportsReclaimed to
\* totalRentReclaimed, adds 1 to totalAccountsClosed and persists the
\* registry; for an untracked address it changes no account and no metric and
\* does not write the registry file.
C25_RecordReclaim ==
  [][ (Returns("recordReclaim") /\ ~SaveThrew(result')) =>
        LET old == registry[result'.proc]
            new == registry'[result'.proc]
            at == { i \in 1..Len(old.accounts) :
                      old.accounts[i].address = result'.address }
        IN  IF at # {}
            THEN /\ \E i \in at :
                      new.accounts = [old.accounts EXCEPT ![i].status = "closed"]
                 /\ new.metrics =
                      [old.metrics EXCEPT
                         !.totalRentReclaimed = @ + result'.lamportsReclaimed,
                         !.totalAccountsClosed = @ + 1]
                 /\ new.lastProcessedSignature = old.lastProcessedSignature
                 /\ file' = Full(new)
            ELSE /\ registry' = registry
                 /\ file' = file
                 /\ tmpFile' = tmpFile ]_vars

\* a reclaim was recorded for an account that a refresh had already closed,
\* and is on disk
C25_Witness ==
  /\ result.op = "recordReclaim"
  /\ ~SaveThrew(result)
  /\ result.address = A1
  /\ result.lamportsReclaimed = ATA_RENT
  /\ Len(registry["P1"].accounts) = 1
  /\ registry["P1"].accounts[1].status = "closed"
  /\ registry["P1"].metrics.totalRentReclaimed = ATA_RENT
  /\ registry["P1"].metrics.totalAccountsClosed = 2
  /\ file = Full(registry["P1"])

\* C26: totalAccountsSponsored, totalRentLocked, totalRentReclaimed and
\* totalAccountsClosed never decrease over any sequence of ingest, refresh
\* and recordReclaim calls with non-negative lamports, also when an account's
\* status goes back from closed or empty to active.
C26_CountersNeverDecrease ==
  [][ \A p \in DOMAIN registry :
        LET old == registry[p].metrics
            new == registry'[p].metrics
        IN  /\ new.totalAccountsSponsored >= old.totalAccountsSponsored
            /\ new.totalRentLocked >= old.totalRentLocked
            /\ new.totalRentReclaimed >= old.totalRentReclaimed
            /\ new.totalAccountsClosed >= old.totalAccountsClosed ]_vars

\* an account that was closed and reclaimed is active again after a refresh,
\* and the counters still hold what was counted
C26_Witness ==
  /\ result.op = "refresh"
  /\ Len(registry["P1"].accounts) = 1
  /\ registry["P1"].accounts[1].status = "active"
  /\ registry["P1"].metrics.totalAccountsClosed = 2
  /\ registry["P1"].metrics.totalRentReclaimed = ATA_RENT
  /\ registry["P1"].metrics.totalRentLocked = ATA_RENT

\* C27: ingestion watermark: a transaction that an earlier completed
\* ingestTransactionHistory run already processed is not fetched from the
\* chain again by a later run: a run over the very signatures of the
\* completed run before it calls getParsedTransaction for none of them.
C27_ProcessedIsNotFetchedAgain ==
  [][ (Returns("ingest") /\ result'.repeat) => result'.fetched = << >> ]_vars

\* C28: if an ingestTransactionHistory run is killed part-way, the accounts
\* and the counters of every batch completed before the interruption are
\* already on disk: a restart loads them.
C28_CompletedBatchesAreOnDisk ==
  (result.op = "killed" /\ result.batches >= 1)
    => LET onDisk == loadOrCreateRegistry(file)
       IN  /\ \A i \in 1..Len(result.accounts) :
                \E j \in 1..Len(onDisk.accounts) :
                  onDisk.accounts[j] = result.accounts[i]
           /\ onDisk.metrics = result.metrics

\* C29: if the chain read for one tracked account fails during
\* refreshAccountStatuses, that account's status and lastChecked stay as they
\* were and it is counted in none of active, empty, closed and updated, while
\* the other accounts are still refreshed and the registry is saved.
C29_FailedReadIsSkipped ==
  [][ (Returns("refresh") /\ ~SaveThrew(result')) =>
        LET old == registry[result'.proc]
            new == registry'[result'.proc]
            unread == result'.readFailed
            reread == (1..Len(old.accounts)) \ unread
            With(status) == { i \in reread : new.accounts[i].status = status }
        IN  /\ Len(new.accounts) = Len(old.accounts)
            /\ \A i \in unread : new.accounts[i] = old.accounts[i]
            /\ \A i \in reread : new.accounts[i].lastChecked = now
            /\ result'.active = Cardinality(With("active"))
            /\ result'.empty = Cardinality(With("empty"))
            /\ result'.closed = Cardinality(With("closed"))
            /\ result'.updated =
                 Cardinality({ i \in reread :
                                 new.accounts[i].status # old.accounts[i].status })
            /\ file' = Full(new) ]_vars

\* the read of the first of two accounts failed on its first refresh and the
\* second was found gone
C29_Witness ==
  /\ result.op = "refresh"
  /\ ~SaveThrew(result)
  /\ result.readFailed = {1}
  /\ result.closed = 1
  /\ result.updated = 1
  /\ Len(registry["P1"].accounts) = 2
  /\ registry["P1"].accounts[1].status = "active"
  /\ registry["P1"].accounts[1].lastChecked = -1
  /\ registry["P1"].accounts[2].status = "closed"
  /\ registry["P1"].accounts[2].lastChecked = now
  /\ file = Full(registry["P1"])

\* C30: once an account is in the registry no operation changes its
\* sponsorshipConfidence, beneficiary, sponsoredBy, rentLamports,
\* accountType, creationTxSignature or createdAt: a refresh changes only
\* status and lastChecked, recordReclaim only status, and ingestion changes
\* no existing account.
C30_ClassificationIsFrozen ==
  [][ \A p \in DOMAIN registry :
        LET old == registry[p].accounts
            new == registry'[p].accounts
        IN  /\ Len(new) >= Len(old)
            /\ \A i \in 1..Len(old) :
                 /\ new[i] = [old[i] EXCEPT !.status = new[i].status,
                                            !.lastChecked = new[i].lastChecked]
                 /\ Returns("recordReclaim") => new[i].lastChecked = old[i].lastChecked
                 /\ Returns("ingest") => new[i] = old[i] ]_vars

\* an account that was refreshed and then reclaimed went through a further
\* ingestion with the classification it was first given
C30_Witness ==
  /\ result.op = "ingest"
  /\ result.fetched # << >>
  /\ Len(registry["P1"].accounts) = 1
  /\ registry["P1"].accounts[1].creationTxSignature = "S01"
  /\ registry["P1"].accounts[1].rentLamports = ATA_RENT
  /\ registry["P1"].accounts[1].status = "closed"
  /\ registry["P1"].accounts[1].lastChecked = now
  /\ registry["P1"].metrics.totalRentReclaimed = ATA_RENT

\* the moments at which an ingestion may run
RunTimes == { StartNow + k * MinuteMs : k \in 0..MaxMinutes }

\* C31: classification is deterministic: extractSponsoredAccounts applied to
\* the same parsed transaction and signature yields the same candidates in
\* every field, createdAt included, whatever the time at which it runs, also
\* for a transaction whose blockTime is missing: a tracked account is the
\* candidate the extraction yields at any other moment.
C31_ClassificationIsDeterministic ==
  \A p \in Procs : \A a \in Tracked(p) : \A t \in RunTimes :
    LET sig == a.creationTxSignature
        again == extractSponsoredAccounts(TxOf(sig), sig, OP, t)
    IN  \E k \in 1..Len(again) : again[k] = a

\* the instruction creates the address and the operator pays for it
PaidByOperator(ins, address) ==
  /\ ins.parsed
  /\ \/ /\ ins.program = "system"
        /\ ins.type \in {"createAccount", "createAccountWithSeed"}
        /\ ins.info.source = OP
        /\ ins.info.newAccount = address
     \/ /\ ins.program = "spl-associated-token-account"
        /\ ins.type = "create"
        /\ ins.info.payer = OP
        /\ ins.info.account = address

\* C32: ingestion records no account from a transaction whose fee payer
\* (first account key) is not the operator, from a transaction that failed,
\* or from a creation instruction whose source or payer is not the operator:
\* every tracked account comes from a successful transaction the operator
\* paid the fee of, out of an instruction the operator paid the rent of.
C32_OnlyOperatorPaidCreations ==
  \A p \in Procs : \A a \in Tracked(p) :
    LET tx == TxOf(a.creationTxSignature)
    IN  /\ Len(tx.accountKeys) > 0
        /\ tx.accountKeys[1].pubkey = OP
        /\ ~tx.err
        /\ \E k \in 1..Len(tx.instructions) :
             PaidByOperator(tx.instructions[k], a.address)

\* the transaction in which the user pays for A1 and the operator for A2 was
\* ingested: A2 alone is tracked
C32_Witness ==
  /\ result.op = "ingest"
  /\ result.complete
  /\ result.signatures = <<"S19">>
  /\ Len(registry["P1"].accounts) = 1
  /\ registry["P1"].accounts[1].address = A2

\* the status the refresh rules give an account of the type for the read
RuledStatus(accountType, read) ==
  IF read.kind = "null" THEN "closed"
  ELSE LET data == read.info.data
       IN  IF accountType = "token"
           THEN IF Len(data) >= 72 /\ \A k \in 65..72 : data[k] = 0
                THEN "empty" ELSE "active"
           ELSE IF Len(data) = 0 \/ \A k \in 1..Len(data) : data[k] = 0
                THEN "empty" ELSE "active"

\* C33: refreshAccountStatuses sets, for each tracked account whose read
\* succeeds: closed if the account is missing; for a token account, empty if
\* the data has at least 72 bytes and the little-endian 64-bit value at bytes
\* 64 to 72 is 0, active if it is nonzero or the data is shorter; for every
\* other type, empty if the data is empty or all zero, active otherwise.
C33_RefreshStatusRules ==
  [][ Returns("refresh") =>
        LET new == registry'[result'.proc].accounts
        IN  \A i \in 1..Len(new) :
              /\ new[i].status = RuledStatus(new[i].accountType, chain[new[i].address])
              /\ new[i].lastChecked = now ]_vars

\* a refresh found the token account with exactly 72 zero bytes and the
\* other account holding token data with a zero amount
C33_Witness ==
  /\ result.op = "refresh"
  /\ chain[A1] = ReadInfo(AccountInfo(RENT_0, SYSTEM_PROGRAM, Zeros(72)))
  /\ chain[A2] = ReadInfo(AccountInfo(RENT_0, SYSTEM_PROGRAM, TokenData(U1, AmountZero)))
  /\ \A i \in 1..2 :
       /\ registry["P1"].accounts[i].lastChecked = now
       /\ registry["P1"].accounts[i].status =
            IF registry["P1"].accounts[i].address = A1 THEN "empty" ELSE "active"

\* C34: calculateConfidence returns high exactly when the beneficiary differs
\* from the operator and is not a known infrastructure program; otherwise
\* medium exactly when the owning program is a known infrastructure program;
\* otherwise low.
C34_ConfidenceLevels ==
  result.op = "calculateConfidence" =>
    LET forSomeoneElse == /\ result.beneficiary # result.operator
                          /\ result.beneficiary \notin knownPrograms
        ownedByProgram == result.accountOwner \in knownPrograms
    IN  /\ result.confidence = "high" <=> forSomeoneElse
        /\ result.confidence = "medium" <=> (~forSomeoneElse /\ ownedByProgram)
        /\ result.confidence = "low" <=> (~forSomeoneElse /\ ~ownedByProgram)

\* calculateConfidence was asked about a beneficiary that is an unknown
\* program and an account a known program owns
C34_Witness ==
  /\ result.op = "calculateConfidence"
  /\ result.beneficiary = PX
  /\ result.operator = OP
  /\ result.accountOwner = TOKEN_PROGRAM_ID
  /\ result.confidence = "high"

\* C35: in a live run a transaction record has verified = true only if the
\* treasury balance read after the transaction is strictly greater than the
\* treasury balance immediately before that transaction was dispatched.
C35_VerifiedMeansTreasuryGrew ==
  (report.kind = "report" /\ ~report.dryRun) =>
    \A k \in 1..Len(report.transactions) :
      LET t == report.transactions[k]
      IN  t.verified =>
            \E j \in 1..Len(dispatched) :
              /\ dispatched[j].address = t.address
              /\ dispatched[j].landed
              /\ t.treasuryBalanceAfter > dispatched[j].treasuryBefore

\* the positions of the run's signatures for which getParsedTransaction was
\* called and threw
Threw(c) ==
  { k \in 1..Len(c.signatures) :
      /\ c.outcomes[k] = "throw"
      /\ \E j \in 1..Len(c.fetched) : c.fetched[j] = c.signatures[k] }

\* C36: a transaction whose fetch or classification fails during
\* ingestTransactionHistory is counted in errors and not in
\* transactionsProcessed, the remaining signatures are still processed, and
\* when the run completes transactionsProcessed + errors is the number of
\* signatures fetched.
C36_ErrorsAreCountedAndContained ==
  [][ (pc["P1"] = "batch" /\ pc'["P1"] = "ready") =>
        LET sigs == call.signatures
            new == registry'["P1"]
        IN  /\ Len(call.outcomes) = Len(sigs)
            /\ result'.errors = Cardinality(Threw(call))
            /\ result'.transactionsProcessed = Len(sigs) - Cardinality(Threw(call))
            /\ result'.transactionsProcessed + result'.errors = Len(sigs)
            /\ \A k \in 1..Len(sigs) :
                 \/ isSignatureProcessed(new, sigs[k])
                 \/ /\ \E j \in 1..Len(call.fetched) : call.fetched[j] = sigs[k]
                    /\ (call.outcomes[k] = "ok" /\ ~TxOf(sigs[k]).err) =>
                         LET found == extractSponsoredAccounts(TxOf(sigs[k]), sigs[k], OP, now)
                         IN  \A c \in 1..Len(found) :
                               isAccountTracked(new, found[c].address) ]_vars

\* a run over six signatures in which the fetch of the first one failed and
\* the account of the second one was found
C36_Witness ==
  /\ result.op = "ingest"
  /\ result.signatures = ResumeHistory
  /\ "errors" \in DOMAIN result
  /\ result.errors = 1
  /\ result.transactionsProcessed = 5
  /\ result.fetched[1] = "S04"
  /\ Len(registry["P1"].accounts) = 1
  /\ registry["P1"].accounts[1].creationTxSignature = "S01"
RECURSIVE SumReclaimed(_, _)
SumReclaimed(transactions, i) ==
  IF i > Len(transactions) THEN 0
  ELSE transactions[i].lamportsReclaimed + SumReclaimed(transactions, i + 1)

\* C37: every report executeReclaim returns has as many transactions as
\* accountsReclaimed and as many errors as accountsFailed, has
\* accountsReclaimed + accountsFailed <= accountsValidated <= the smaller of
\* the number of candidates and maxAccountsPerRun, and has
\* totalLamportsReclaimed equal to the sum of lamportsReclaimed over its
\* transactions
C37_ReportCountsAreConsistent ==
  (call.kind = "executeReclaim" /\ report.kind = "report") =>
    /\ Len(report.transactions) = report.accountsReclaimed
    /\ Len(report.errors) = report.accountsFailed
    /\ report.accountsReclaimed + report.accountsFailed <= report.accountsValidated
    /\ report.accountsValidated <= Len(call.accounts)
    /\ report.accountsValidated <= call.cfg.maxAccountsPerRun
    /\ report.totalLamportsReclaimed = SumReclaimed(report.transactions, 1)

\* C38: in a tracker that started from a new registry, after any ingestions,
\* refreshes and recorded reclaims, totalAccountsSponsored is the number of
\* tracked accounts and totalRentLocked is the sum of their rentLamports
C38_SponsoredMetricsMatchAccounts ==
  \A p \in Procs :
    /\ registry[p].metrics.totalAccountsSponsored = Len(registry[p].accounts)
    /\ registry[p].metrics.totalRentLocked = RentFrom(registry[p].accounts, 1)

C38_Witness ==
  /\ C38_SponsoredMetricsMatchAccounts
  /\ Len(registry["P1"].accounts) = 2
  /\ registry["P1"].metrics.totalRentLocked = ATA_RENT + RENT_0
  /\ registry["P1"].metrics.totalRentReclaimed > 0
  /\ \E i \in 1..2 : /\ registry["P1"].accounts[i].lastChecked # -1
                      /\ registry["P1"].accounts[i].status = "closed"

\* C39: no two tracked accounts share an address, after any sequence of
\* ingestions, also when several transactions or several instructions of
\* one transaction create the same address
C39_AddressesAreUnique ==
  \A p \in Procs :
    \A i, j \in 1..Len(registry[p].accounts) :
      registry[p].accounts[i].address = registry[p].accounts[j].address => i = j

\* two transactions that create A1, one of them twice, were ingested in one
\* run and A1 is tracked once
C39_Witness ==
  /\ C39_AddressesAreUnique
  /\ result.op = "ingest"
  /\ result.complete
  /\ result.signatures \in { <<"S01", "S14">>, <<"S14", "S01">> }
  /\ Len(registry["P1"].accounts) = 1
  /\ registry["P1"].accounts[1].address = A1

\* C40: releaseLock removes the lock file only when it holds the lock the
\* releasing process created: a process whose lock went stale and was taken
\* over by another process does not delete that process's lock
C40_ReleaseRemovesOwnLockOnly ==
  [][ \A p \in Procs :
        ( /\ lockpc[p] = "runlink"
          /\ lockpc'[p] = "idle"
          /\ lockFile # Missing
          /\ lockFile' = Missing )
        => /\ lockFile.pid = p
           /\ lockFile.mtimeMs = lockHeld[p].since ]_vars

====
